---- MODULE Spec2Model ----
(***************************************************************************)
(* Session lifecycle of KineticTypographyPlayer: the session effect, the   *)
(* asynchronous recorder setup, the render loops of the three timeline     *)
(* modes, the recorder's stop event and the effect cleanup.                *)
(*                                                                         *)
(* All times are in milliseconds.  The audio context's currentTime and     *)
(* audioStartTimeRef are seconds in the source and are kept here in        *)
(* milliseconds (the source multiplies their difference by 1000).          *)
(***************************************************************************)
EXTENDS Integers, Sequences, FiniteSets, TLC

\* ---------------------------------------------------------------- bounds
MaxSessions == 2
MaxTicks == 3
TickMs == 5000

Sessions == 1..MaxSessions

\* ------------------------------------------------------ program constants
FADE_DURATION == 80
defaultTypeSpeed == 250
LongScriptWords == 30
PreviewHold == 2000
ExportHold == 5000
PagedMinDuration == 5000
PagedMsPerWord == 500
TailMs == 1000
DriftMinMs == 500

\* ------------------------------------------------------------- utilities
Max(a, b) == IF a >= b THEN a ELSE b
Min(a, b) == IF a <= b THEN a ELSE b

\* Math.round(num / den) for den > 0: halves round towards +infinity.
MathRound(num, den) == (2 * num + den) \div (2 * den)

RECURSIVE SumSeq(_)
SumSeq(q) == IF q = <<>> THEN 0 ELSE Head(q) + SumSeq(Tail(q))

\* ------------------------------------------------------------ environment
\* Encodings a browser's MediaRecorder may support; "other" stands for an
\* encoding outside the preference list, "default" for the encoding a
\* recorder constructed without options records with.
MimeTypes == <<"vp9", "vp8", "webm", "mp4">>
AllListed == {"vp9", "vp8", "webm", "mp4"}
SupportedSets == { {}, {"other"}, {"mp4"}, AllListed }

\* A browser: whether canvas.captureStream works and what its MediaRecorder
\* supports (without a capture stream no recorder is ever constructed).
Browsers ==
    { [capture |-> TRUE, supported |-> sup] : sup \in SupportedSets }
    \cup { [capture |-> FALSE, supported |-> AllListed] }

\* Encodings that carry an alpha channel (VP8/VP9 in a WebM container).
AlphaCapable == {"vp9", "vp8", "webm"}

\* A script is the sequence of its words; a word is kept by the punctuation
\* it ends in, which is all the ambient timing reads of it.
Scripts == { <<"plain", "stop">>, <<"comma", "plain", "stop">> }

AudioDurations == {5750}
SegmentEnds == {5000}
DataSizes == {0, 1}

\* Props of one session.  segEnd = 0: no transcript segments.
PropsSet ==
    { p \in [preview : BOOLEAN, bg : {"solid", "transparent"},
             audioSrc : BOOLEAN, segEnd : {0} \cup SegmentEnds,
             script : Scripts] :
        /\ p.segEnd > 0 => p.audioSrc
        /\ p.preview => (~p.audioSrc /\ p.bg = "solid")
        /\ p.audioSrc <=> p.bg = "solid" /\ ~p.preview
        /\ p.audioSrc <=> Len(p.script) = 3 }

\* The sessions explored in a browser: every kind of session where the whole
\* preference list is supported, and else the sessions whose recorder setup
\* the browser's encodings decide (previews and transparent exports).
PropsFor(b) ==
    IF b.supported = AllListed THEN PropsSet
    ELSE { p \in PropsSet : p.preview \/ p.bg = "transparent" }

NoProps == [preview |-> FALSE, bg |-> "solid", audioSrc |-> FALSE,
            segEnd |-> 0, script |-> <<>>]

VARIABLES
    ticks,              \* performance.now() = ticks * TickMs
    browser,            \* the browser the page runs in
    mounted,            \* "no" | "yes" | "gone"
    nSessions,          \* effect runs so far
    cur,                \* the session whose effect is live, 0 if none
    props,              \* props[s]: the props session s closed over
    pc,                 \* position of session s
    tornDown,           \* the cleanup of session s has run
    ctx,                \* ctx[s]: the AudioContext session s created
    mediaRecorderRef,   \* 0 = null, else the session that built the recorder
    animationFrameId,   \* 0 = null, else the session that owns the handle
    isStoppingRef,
    audioDurationRef,   \* 0 = null, else ms
    audioContextRef,    \* 0 = null, else the session that built the context
    audioStartTimeRef,  \* [t |-> ms, clock |-> "init" | "audio" | "wall"]
    recState,           \* "none" | "inactive" | "recording"
    recMime,            \* encoding recorder s records with
    chunks,             \* sizes pushed by ondataavailable
    stopEventPending,   \* stop() was called, the stop event has not fired
    frameQueue,         \* sessions whose frame callback is queued, in request order
    loopStart,          \* startTime of the loop of s
    totalDuration,
    mode,               \* "none" | "segments" | "paged" | "ambient"
    nComplete, nError,  \* calls of onComplete / onError by session s
    completeSize,       \* size of the blob handed to onComplete by s
    errorMsg,           \* last message passed to onError by s
    progressCalls,      \* onProgress calls made by the last step
    lastFrames,         \* clock readings of the frames the last step ran
    stopCalls,          \* stop() invocations on recorder s
    reachedEnd,         \* the loop of s saw elapsed >= totalDuration
    lateActs,           \* acts the last step made for a torn-down session
    foreignActs,        \* refs of a later session the last step wrote for a torn-down one
    audioFailed         \* the audio load of session s threw into the inner catch

\* Background loading (the background effect and the readiness gate).
VARIABLES
    bgMounted,          \* the player is mounted
    bgConfig,           \* backgroundType/backgroundSource of the last commit
    bgState,            \* value last passed to setBgAssetsLoaded
    bgAssetsLoaded,     \* bgAssetsLoaded as the last commit rendered it
    loading,            \* assets whose Image / video element is still loading
    loadFailed,         \* assets whose load ended in an error event
    loadedCur,          \* the load event of the configured asset has fired
    bgImageRef,         \* "none" or the image in bgImageRef.current
    bgVideoRef,         \* "none", the video in bgVideoRef.current, or "emptied"
    sessionBg,          \* "none", or the background the live session closed over
    painted             \* what drawBackground painted in the last step

\* Calls of the pure functions of the player: the last call and the layout
\* the frames paint.
VARIABLES
    call,               \* the last call: its function, inputs and outputs
    layout              \* the words of the current layout, with their fields

\* The application: App's state, the input form it shows in IDLE and the
\* export player it mounts in GENERATING.
VARIABLES
    appState,           \* "IDLE" | "ANALYZING" | "PREVIEW" | "GENERATING" | "COMPLETE"
    generatedScript,    \* "empty" | "blank" (whitespace only) | "text"
    currentMode,        \* "summarize" | "literal"
    audioUrlForPlayer,  \* an object URL of the recording is set
    videoUrl,           \* an object URL of the video is set
    error,              \* "none" or the kind of the error shown
    lastStart,          \* arguments of the last onStart call (mode "none" before)
    form,               \* state of the mounted InputForm
    exportPc,           \* "none" | "setup" | "recording" | "stopping" | "failed" | "done"
    exportScript        \* the script the export session closed over

appVars == <<appState, generatedScript, currentMode, audioUrlForPlayer,
             videoUrl, error, lastStart, form, exportPc, exportScript>>
gateVars == <<bgMounted, bgConfig, bgState, bgAssetsLoaded, loading,
              loadFailed, loadedCur, bgImageRef, bgVideoRef, sessionBg,
              painted>>
fnVars == <<call, layout>>
otherVars == <<gateVars, fnVars, appVars>>

envVars == <<browser>>
supported == browser.supported
captureOk == browser.capture
refVars == <<mediaRecorderRef, animationFrameId, isStoppingRef,
             audioDurationRef, audioContextRef, audioStartTimeRef>>
recVars == <<recState, recMime, chunks, stopEventPending>>
loopVars == <<frameQueue, loopStart, totalDuration, mode>>
cbVars == <<nComplete, nError, completeSize, errorMsg, progressCalls>>
histVars == <<stopCalls, reachedEnd>>
stepVars == <<lastFrames, lateActs, foreignActs>>
playerVars == <<ticks, envVars, mounted, nSessions, cur, props, pc, tornDown,
                ctx, refVars, recVars, loopVars, cbVars, histVars, stepVars,
                audioFailed>>

vars == <<playerVars, gateVars, fnVars, appVars>>

now == ticks * TickMs

NoStep == lastFrames' = <<>> /\ lateActs' = {} /\ foreignActs' = {}

RECURSIVE Without(_, _)
Without(q, x) ==
    IF q = <<>> THEN <<>>
    ELSE IF Head(q) = x THEN Without(Tail(q), x)
    ELSE <<Head(q)>> \o Without(Tail(q), x)

InQueue(q, x) == \E i \in 1..Len(q) : q[i] = x

PlayerInit ==
    /\ ticks = 0
    /\ browser \in Browsers
    /\ mounted = "no"
    /\ nSessions = 0
    /\ cur = 0
    /\ props = [s \in Sessions |-> NoProps]
    /\ pc = [s \in Sessions |-> "idle"]
    /\ tornDown = [s \in Sessions |-> FALSE]
    /\ ctx = [s \in Sessions |-> [state |-> "none", base |-> 0, frozen |-> 0]]
    /\ mediaRecorderRef = 0
    /\ animationFrameId = 0
    /\ isStoppingRef = FALSE
    /\ audioDurationRef = 0
    /\ audioContextRef = 0
    /\ audioStartTimeRef = [t |-> 0, clock |-> "init"]
    /\ recState = [s \in Sessions |-> "none"]
    /\ recMime = [s \in Sessions |-> "none"]
    /\ chunks = [s \in Sessions |-> <<>>]
    /\ stopEventPending = [s \in Sessions |-> FALSE]
    /\ frameQueue = <<>>
    /\ loopStart = [s \in Sessions |-> 0]
    /\ totalDuration = [s \in Sessions |-> 0]
    /\ mode = [s \in Sessions |-> "none"]
    /\ nComplete = [s \in Sessions |-> 0]
    /\ nError = [s \in Sessions |-> 0]
    /\ completeSize = [s \in Sessions |-> 0]
    /\ errorMsg = [s \in Sessions |-> "none"]
    /\ progressCalls = <<>>
    /\ lastFrames = <<>>
    /\ stopCalls = [s \in Sessions |-> 0]
    /\ reachedEnd = [s \in Sessions |-> FALSE]
    /\ lateActs = {}
    /\ foreignActs = {}
    /\ audioFailed = [s \in Sessions |-> FALSE]

\* The background effect before the first commit: bgAssetsLoaded is
\* useState(false), both asset refs are null.
GateIdle ==
    /\ bgMounted = FALSE
    /\ bgConfig = "none"
    /\ bgState = FALSE
    /\ bgAssetsLoaded = FALSE
    /\ loading = {}
    /\ loadFailed = {}
    /\ loadedCur = FALSE
    /\ bgImageRef = "none"
    /\ bgVideoRef = "none"
    /\ sessionBg = "none"
    /\ painted = "none"

FnIdle ==
    /\ call = [fn |-> "none"]
    /\ layout = <<>>

\* useState initial values of InputForm.
NewForm == [mode |-> "summarize", concern |-> "empty", audioBlob |-> FALSE,
            isTranscribing |-> FALSE, isRecording |-> FALSE,
            textFrom |-> "none", segmentsFrom |-> "undefined"]

AppIdle ==
    /\ appState = "IDLE"
    /\ generatedScript = "empty"
    /\ currentMode = "summarize"
    /\ audioUrlForPlayer = FALSE
    /\ videoUrl = FALSE
    /\ error = "none"
    /\ lastStart = [script |-> "none", mode |-> "none", audioBlob |-> FALSE,
                    textFrom |-> "none", segmentsFrom |-> "undefined",
                    busy |-> FALSE]
    /\ form = NewForm
    /\ exportPc = "none"
    /\ exportScript = "none"

Init == PlayerInit /\ GateIdle /\ FnIdle /\ AppIdle

\* ------------------------------------------------------------ audio clock
\* AudioContext.currentTime at wall time t: advances while the context runs,
\* stands still while it is suspended and after close().
CtxTime(c, t) == IF c.state = "running" THEN t - c.base ELSE c.frozen

CloseCtx(c) ==
    IF c.state = "closed" THEN c
    ELSE [state |-> "closed", base |-> c.base, frozen |-> CtxTime(c, now)]

\* ------------------------------------------------------- pure functions
getSupportedMimeType(sup) ==
    IF \E i \in 1..Len(MimeTypes) : MimeTypes[i] \in sup
    THEN MimeTypes[CHOOSE i \in 1..Len(MimeTypes) :
                      /\ MimeTypes[i] \in sup
                      /\ \A j \in 1..(i - 1) : MimeTypes[j] \notin sup]
    ELSE "undefined"

Abs(x) == IF x < 0 THEN -x ELSE x

\* Drift correction of the last segment's end (ms); aud = 0 is "unknown".
TimeScaleApplies(aud, lastEnd) ==
    /\ aud # 0
    /\ Abs(aud - lastEnd) > DriftMinMs
    /\ 10 * aud > 8 * lastEnd
    /\ 10 * aud < 12 * lastEnd

ScaledEnd(aud, lastEnd) ==
    IF TimeScaleApplies(aud, lastEnd) THEN (lastEnd * aud) \div lastEnd
    ELSE lastEnd

SegmentsTotal(aud, lastEnd) == Max(ScaledEnd(aud, lastEnd) + TailMs, aud)

PagedTotal(aud, nWords) ==
    IF aud # 0 THEN aud ELSE Max(PagedMinDuration, nWords * PagedMsPerWord)

\* Ambient pacing: 250 ms, x2.5 after '.', '!' or '?', x1.8 after ','.
WordDelay(w) ==
    IF w = "stop" THEN (defaultTypeSpeed * 25) \div 10
    ELSE IF w = "comma" THEN (defaultTypeSpeed * 18) \div 10
    ELSE defaultTypeSpeed

RECURSIVE WordStart(_, _)
WordStart(script, i) ==
    IF i <= 1 THEN 0 ELSE WordStart(script, i - 1) + WordDelay(script[i - 1])

AmbientTotal(script, preview) ==
    (IF Len(script) > 0 THEN WordStart(script, Len(script)) + FADE_DURATION
     ELSE 0)
    + (IF preview THEN PreviewHold ELSE ExportHold)

useSegments(p) == p.segEnd > 0 /\ ~p.preview

shouldUsePagedMode(p, aud) ==
    \/ (p.audioSrc /\ aud # 0 /\ ~p.preview)
    \/ (Len(p.script) > LongScriptWords /\ ~p.preview)

TimelineMode(p, aud) ==
    IF useSegments(p) THEN "segments"
    ELSE IF shouldUsePagedMode(p, aud) THEN "paged"
    ELSE "ambient"

TimelineTotal(p, aud) ==
    IF useSegments(p) THEN SegmentsTotal(aud, p.segEnd)
    ELSE IF shouldUsePagedMode(p, aud) THEN PagedTotal(aud, Len(p.script))
    ELSE AmbientTotal(p.script, p.preview)

ProgressOf(elapsed, total) == Min(100, MathRound(100 * elapsed, total))

ProgressCall(s, v, e, t, k) ==
    [s |-> s, val |-> v, elapsed |-> e, total |-> t, kind |-> k]

\* --------------------------------------------------------- effect cleanup
\* Both cleanups cancel the frame whose handle is in animationFrameId and
\* close the context in audioContextRef; the export cleanup also stops the
\* recorder in mediaRecorderRef behind the stop guard.
CleanupStops_Unguarded(preview) == ~preview /\ mediaRecorderRef # 0

CleanupStops(preview) ==
    /\ ~preview
    /\ mediaRecorderRef # 0
    /\ recState[mediaRecorderRef] = "recording"
    /\ ~isStoppingRef

CleanupFrames ==
    IF animationFrameId # 0 THEN Without(frameQueue, animationFrameId)
    ELSE frameQueue

CleanupCtx ==
    IF audioContextRef # 0
    THEN [ctx EXCEPT ![audioContextRef] = CloseCtx(ctx[audioContextRef])]
    ELSE ctx

CleanupRecorder(preview) ==
    /\ recState' = IF CleanupStops(preview)
                   THEN [recState EXCEPT ![mediaRecorderRef] = "inactive"]
                   ELSE recState
    /\ stopEventPending' = IF CleanupStops(preview)
                           THEN [stopEventPending EXCEPT ![mediaRecorderRef] = TRUE]
                           ELSE stopEventPending
    /\ stopCalls' = IF CleanupStops(preview)
                    THEN [stopCalls EXCEPT ![mediaRecorderRef] = @ + 1]
                    ELSE stopCalls

\* ----------------------------------------------------------- effect body
\* The session effect of session s with props p, run on the state the
\* cleanup (if any) left: frame queue fq, contexts cx.
StartEffect(s, p, fq, cx) ==
    /\ nSessions' = s
    /\ cur' = s
    /\ props' = [props EXCEPT ![s] = p]
    /\ isStoppingRef' = FALSE
    /\ audioDurationRef' = 0
    /\ progressCalls' = <<ProgressCall(s, 0, 0, 0, "start")>>
    /\ IF p.preview
       THEN /\ pc' = [pc EXCEPT ![s] = "preview"]
            /\ mode' = [mode EXCEPT ![s] = TimelineMode(p, 0)]
            /\ totalDuration' = [totalDuration EXCEPT ![s] = TimelineTotal(p, 0)]
            /\ loopStart' = [loopStart EXCEPT ![s] = now]
            /\ frameQueue' = Append(fq, s)
            /\ animationFrameId' = s
            /\ ctx' = cx
            /\ UNCHANGED audioContextRef
       ELSE /\ \E suspended \in BOOLEAN :
                 /\ ctx' = [cx EXCEPT ![s] =
                        [state |-> IF suspended THEN "suspended" ELSE "running",
                         base |-> now, frozen |-> 0]]
                 /\ pc' = [pc EXCEPT ![s] =
                        IF suspended THEN "awaitResume" ELSE "awaitAudio"]
            /\ audioContextRef' = s
            /\ frameQueue' = fq
            /\ UNCHANGED <<mode, totalDuration, loopStart, animationFrameId>>

Mount ==
    /\ mounted = "no"
    /\ mounted' = "yes"
    /\ \E p \in PropsFor(browser) : StartEffect(1, p, frameQueue, ctx)
    /\ NoStep
    /\ UNCHANGED <<ticks, envVars, tornDown, mediaRecorderRef,
                   audioStartTimeRef, recVars, nComplete, nError,
                   completeSize, errorMsg, histVars, audioFailed, otherVars>>

\* A dependency of the session effect changes: React runs the cleanup of
\* the live session and then the effect again, in one commit.
ChangeInput ==
    /\ mounted = "yes"
    /\ cur # 0
    /\ nSessions < MaxSessions
    /\ CleanupRecorder(props[cur].preview)
    /\ tornDown' = [tornDown EXCEPT ![cur] = TRUE]
    /\ \E p \in PropsFor(browser) : p # props[cur]
         /\ StartEffect(nSessions + 1, p, CleanupFrames, CleanupCtx)
    /\ NoStep
    /\ UNCHANGED <<ticks, envVars, mounted, mediaRecorderRef,
                   audioStartTimeRef, recMime, chunks, nComplete, nError,
                   completeSize, errorMsg, reachedEnd, audioFailed, otherVars>>

Unmount ==
    /\ mounted = "yes"
    /\ cur # 0
    /\ mounted' = "gone"
    /\ cur' = 0
    /\ CleanupRecorder(props[cur].preview)
    /\ isStoppingRef' = (isStoppingRef \/ CleanupStops(props[cur].preview))
    /\ tornDown' = [tornDown EXCEPT ![cur] = TRUE]
    /\ frameQueue' = CleanupFrames
    /\ ctx' = CleanupCtx
    /\ progressCalls' = <<>>
    /\ NoStep
    /\ UNCHANGED <<ticks, envVars, nSessions, props, pc, mediaRecorderRef,
                   animationFrameId, audioDurationRef, audioContextRef,
                   audioStartTimeRef, recMime, chunks, loopStart,
                   totalDuration, mode, nComplete, nError, completeSize,
                   errorMsg, reachedEnd, audioFailed, otherVars>>

\* ------------------------------------------------- setupAndStartRecorder
Late(s, kinds) == IF tornDown[s] THEN kinds ELSE {}

SetupFails_ReportsTwice(s, msg) ==
    /\ pc' = [pc EXCEPT ![s] = "failed"]
    /\ nError' = [nError EXCEPT ![s] = @ + 2]
    /\ errorMsg' = [errorMsg EXCEPT ![s] = msg]
    /\ lateActs' = Late(s, {"onError"})

\* Outer catch of setupAndStartRecorder: one onError, nothing else.
SetupFails(s, msg) ==
    /\ pc' = [pc EXCEPT ![s] = "failed"]
    /\ nError' = [nError EXCEPT ![s] = @ + 1]
    /\ errorMsg' = [errorMsg EXCEPT ![s] = msg]
    /\ lateActs' = Late(s, {"onError"})

\* await audioContext.resume() settles: it rejects on a closed context.
ResumeResolved(s) ==
    /\ pc[s] = "awaitResume"
    /\ IF ctx[s].state = "closed"
       THEN /\ SetupFails(s, "resume")
            /\ UNCHANGED ctx
       ELSE /\ pc' = [pc EXCEPT ![s] = "awaitAudio"]
            /\ ctx' = [ctx EXCEPT ![s] =
                   [state |-> "running", base |-> now, frozen |-> 0]]
            /\ lateActs' = {}
            /\ UNCHANGED <<nError, errorMsg>>
    /\ progressCalls' = <<>> /\ lastFrames' = <<>> /\ foreignActs' = {}
    /\ UNCHANGED <<ticks, envVars, mounted, nSessions, cur, props, tornDown,
                   refVars, recVars, loopVars, nComplete, completeSize,
                   histVars, audioFailed, otherVars>>

RecorderMime_NeverThrows(sup) ==
    LET mimeType == getSupportedMimeType(sup)
    IN  IF mimeType # "undefined" THEN mimeType ELSE "default"

\* The encoding the recorder of a session is built with: the first supported
\* entry of the preference list (or "webm" when there is none); when that
\* constructor throws, a recorder built without options ("default"); "fail"
\* when that throws as well.
RecorderMime(sup) ==
    LET mimeType == getSupportedMimeType(sup)
        requested == IF mimeType # "undefined" THEN mimeType ELSE "webm"
    IN  IF requested \in sup THEN requested
        ELSE IF sup # {} THEN "default"
        ELSE "fail"

\* The audio load of session s settles (fetch, arrayBuffer, decodeAudioData)
\* and the rest of setupAndStartRecorder runs to its end without yielding.
AudioResolved(s) ==
    /\ pc[s] = "awaitAudio"
    /\ \E ok \in BOOLEAN, dur \in AudioDurations :
         LET p == props[s]
             aud == IF ok /\ p.audioSrc THEN dur ELSE audioDurationRef
             mime == RecorderMime(supported)
         IN
         /\ audioDurationRef' = aud
         /\ audioFailed' = [audioFailed EXCEPT ![s] = ~ok]
         /\ audioStartTimeRef' =
                IF ok THEN [t |-> CtxTime(ctx[s], now), clock |-> "audio"]
                ELSE [t |-> now, clock |-> "wall"]
         /\ IF ~captureOk
            THEN /\ SetupFails(s, "Canvas capturing is not supported on this browser.")
                 /\ foreignActs' = {}
                 /\ UNCHANGED <<mediaRecorderRef, animationFrameId, recState,
                                recMime, frameQueue, loopStart,
                                totalDuration, mode>>
            ELSE IF mime = "fail"
            THEN /\ SetupFails(s, "NotSupportedError")
                 /\ foreignActs' = {}
                 /\ UNCHANGED <<mediaRecorderRef, animationFrameId, recState,
                                recMime, frameQueue, loopStart,
                                totalDuration, mode>>
            ELSE /\ mediaRecorderRef' = s
                 /\ recMime' = [recMime EXCEPT ![s] = mime]
                 /\ recState' = [recState EXCEPT ![s] = "recording"]
                 /\ mode' = [mode EXCEPT ![s] = TimelineMode(p, aud)]
                 /\ totalDuration' =
                        [totalDuration EXCEPT ![s] = TimelineTotal(p, aud)]
                 /\ loopStart' = [loopStart EXCEPT ![s] = now]
                 /\ frameQueue' = Append(frameQueue, s)
                 /\ animationFrameId' = s
                 /\ pc' = [pc EXCEPT ![s] = "started"]
                 /\ lateActs' = Late(s, {"recorderStart", "requestFrame"})
                 /\ foreignActs' =
                        IF tornDown[s] /\ cur # 0
                        THEN {"mediaRecorderRef", "animationFrameId"}
                        ELSE {}
                 /\ UNCHANGED <<nError, errorMsg>>
    /\ progressCalls' = <<>> /\ lastFrames' = <<>>
    /\ UNCHANGED <<ticks, envVars, mounted, nSessions, cur, props, tornDown,
                   ctx, isStoppingRef, audioContextRef, chunks,
                   stopEventPending, nComplete, completeSize, histVars,
                   otherVars>>

\* ------------------------------------------------------------ render loop
\* The frame of session s reads the audio clock (segments mode: whenever a
\* context is in audioContextRef; paged mode: when there is also an audioSrc)
\* and else the wall clock.
UsesAudioClock(s) ==
    \/ mode[s] = "segments" /\ audioContextRef # 0
    \/ mode[s] = "paged" /\ audioContextRef # 0 /\ props[s].audioSrc

\* actualElapsedTime / elapsedTime of the frame of session s run at time t.
ActualElapsed(s, t) ==
    IF UsesAudioClock(s)
    THEN CtxTime(ctx[audioContextRef], t) - audioStartTimeRef.t
    ELSE IF mode[s] = "segments" THEN t
    ELSE IF mode[s] = "ambient" /\ props[s].preview
         THEN (t - loopStart[s]) % totalDuration[s]
    ELSE t - loopStart[s]

\* Which clock the frame reads and which clock its start offset was read from.
FrameReadings(s) ==
    [s |-> s,
     clock |-> IF UsesAudioClock(s) THEN "audio" ELSE "wall",
     offset |-> IF UsesAudioClock(s) THEN audioStartTimeRef.clock
                ELSE IF mode[s] = "segments" THEN "none" ELSE "wall"]

Continues(s, t) ==
    \/ mode[s] = "ambient" /\ props[s].preview
    \/ ActualElapsed(s, t) < totalDuration[s]

\* The stop guard of the render loops, on the refs as the frames run before
\* in the same animation frame left them (st).
FrameStops(st, s, t) ==
    /\ ~Continues(s, t)
    /\ mediaRecorderRef # 0
    /\ st.rec[mediaRecorderRef] = "recording"
    /\ ~st.stopping

FrameProgress(st, s, t) ==
    (IF mode[s] = "ambient" /\ props[s].preview THEN <<>>
     ELSE <<ProgressCall(s, ProgressOf(ActualElapsed(s, t), totalDuration[s]),
                         ActualElapsed(s, t), totalDuration[s], "frame")>>)
    \o (IF FrameStops(st, s, t)
        THEN <<ProgressCall(s, 100, ActualElapsed(s, t), totalDuration[s], "stop")>>
        ELSE <<>>)

\* One call of render() of session s at time t.
Frame(st, s, t) ==
    LET stops == FrameStops(st, s, t)
        goes == Continues(s, t)
        r == mediaRecorderRef
    IN  [afid |-> IF goes THEN s ELSE st.afid,
         queue |-> IF goes THEN Append(st.queue, s) ELSE st.queue,
         stopping |-> st.stopping \/ stops,
         rec |-> IF stops THEN [st.rec EXCEPT ![r] = "inactive"] ELSE st.rec,
         pending |-> IF stops THEN [st.pending EXCEPT ![r] = TRUE] ELSE st.pending,
         stops |-> IF stops THEN [st.stops EXCEPT ![r] = @ + 1] ELSE st.stops,
         ended |-> [st.ended EXCEPT ![s] = @ \/ ~goes],
         progress |-> st.progress \o FrameProgress(st, s, t),
         readings |-> Append(st.readings, FrameReadings(s)),
         late |-> st.late \cup Late(s, {"frame"})
                  \cup (IF stops THEN Late(s, {"recorderStop"}) ELSE {}),
         foreign |-> st.foreign
                  \cup (IF goes /\ tornDown[s] /\ cur # 0
                        THEN {"animationFrameId"} ELSE {})
                  \cup (IF stops /\ tornDown[s] /\ r # s
                        THEN {"recorderStop", "isStoppingRef"} ELSE {})]

RECURSIVE RunFrames(_, _, _)
RunFrames(st, q, t) ==
    IF q = <<>> THEN st ELSE RunFrames(Frame(st, Head(q), t), Tail(q), t)

\* The next animation frame: time moves on and the browser runs the queued
\* frame callbacks in the order they were requested.
AnimationFrame ==
    /\ ticks < MaxTicks
    /\ ticks' = ticks + 1
    /\ LET st0 == [afid |-> animationFrameId, queue |-> <<>>,
                   stopping |-> isStoppingRef, rec |-> recState,
                   pending |-> stopEventPending, stops |-> stopCalls,
                   ended |-> reachedEnd, progress |-> <<>>,
                   readings |-> <<>>, late |-> {}, foreign |-> {}]
           st == RunFrames(st0, frameQueue, (ticks + 1) * TickMs)
       IN  /\ animationFrameId' = st.afid
           /\ frameQueue' = st.queue
           /\ isStoppingRef' = st.stopping
           /\ recState' = st.rec
           /\ stopEventPending' = st.pending
           /\ stopCalls' = st.stops
           /\ reachedEnd' = st.ended
           /\ progressCalls' = st.progress
           /\ lastFrames' = st.readings
           /\ lateActs' = st.late
           /\ foreignActs' = st.foreign
    /\ UNCHANGED <<envVars, mounted, nSessions, cur, props, pc, tornDown,
                   ctx, mediaRecorderRef, audioDurationRef, audioContextRef,
                   audioStartTimeRef, recMime, chunks, loopStart,
                   totalDuration, mode, nComplete, nError, completeSize,
                   errorMsg, audioFailed, otherVars>>

\* ------------------------------------------------------ recorder events
\* ondataavailable keeps a chunk only if it is not empty.
PushChunk(cs, size) == IF size > 0 THEN Append(cs, size) ELSE cs

OnStopOutcome_NoEmptyCheck(size) == "complete"

\* onstop: "complete" for a blob that is not empty; an empty blob throws into
\* the handler's catch, as a failing Blob constructor would.
OnStopOutcome(size) == IF size # 0 THEN "complete" ELSE "error"

\* stop() queues the final dataavailable event and then the stop event.
RecorderStopEvent(r) ==
    /\ stopEventPending[r]
    /\ stopEventPending' = [stopEventPending EXCEPT ![r] = FALSE]
    /\ \E d \in DataSizes :
         LET cs == PushChunk(chunks[r], d)
             size == SumSeq(cs)
         IN
         /\ chunks' = [chunks EXCEPT ![r] = cs]
         /\ IF OnStopOutcome(size) = "complete"
            THEN /\ nComplete' = [nComplete EXCEPT ![r] = @ + 1]
                 /\ completeSize' = [completeSize EXCEPT ![r] = size]
                 /\ lateActs' = Late(r, {"onComplete"})
                 /\ UNCHANGED <<nError, errorMsg>>
            ELSE /\ nError' = [nError EXCEPT ![r] = @ + 1]
                 /\ errorMsg' = [errorMsg EXCEPT ![r] = "Failed to finalize video file."]
                 /\ lateActs' = Late(r, {"onError"})
                 /\ UNCHANGED <<nComplete, completeSize>>
    /\ progressCalls' = <<>> /\ lastFrames' = <<>> /\ foreignActs' = {}
    /\ UNCHANGED <<ticks, envVars, mounted, nSessions, cur, props, pc,
                   tornDown, ctx, refVars, recState, recMime, loopVars,
                   histVars, audioFailed, otherVars>>

Next ==
    \/ Mount
    \/ ChangeInput
    \/ Unmount
    \/ \E s \in Sessions : ResumeResolved(s)
    \/ \E s \in Sessions : AudioResolved(s)
    \/ AnimationFrame
    \/ \E r \in Sessions : RecorderStopEvent(r)

Spec == Init /\ [][Next]_vars

\* ==================================================================
\* Background loading and the readiness gate
\* ==================================================================
\* The backgrounds a player is configured with: a colour, transparency, or
\* an image / video named by its source.
Images == {"imgA", "imgB"}
Videos == {"vidA"}
BgConfigs == {"solid", "transparent"} \cup Images \cup Videos

NeedsLoading(c) == c \in Images \cup Videos

\* Body of the background effect for background c: setBgAssetsLoaded(false),
\* then either a new Image / video element starts loading or
\* setBgAssetsLoaded(true).
BgEffect(c) ==
    /\ bgState' = ~NeedsLoading(c)
    /\ loading' = IF NeedsLoading(c) THEN loading \cup {c} ELSE loading
    /\ loadFailed' = loadFailed \ {c}
    /\ loadedCur' = FALSE

\* Cleanup of the background effect: the video in bgVideoRef is paused and
\* its src reset; the ref keeps the element.
BgCleanup == IF bgVideoRef # "none" THEN "emptied" ELSE "none"

\* The session effect behind its gate: with the gate open a session starts
\* and closes over background c.
SessionEffect(gate, c) == IF gate THEN c ELSE "none"

\* What drawBackground paints for a session that closed over background c.
drawBackground(c) ==
    IF c = "transparent" THEN "clear"
    ELSE IF c \in Images /\ bgImageRef # "none" THEN bgImageRef
    ELSE IF c \in Videos /\ bgVideoRef # "none"
         THEN (IF bgVideoRef = "emptied" THEN "nothing" ELSE bgVideoRef)
    ELSE "color"

\* First commit: bgAssetsLoaded is false in this render, so the session
\* effect returns at the gate.
GateMount ==
    /\ ~bgMounted
    /\ bgMounted' = TRUE
    /\ \E c \in BgConfigs : bgConfig' = c /\ BgEffect(c)
    /\ bgAssetsLoaded' = FALSE
    /\ sessionBg' = SessionEffect(FALSE, bgConfig')
    /\ painted' = "none"
    /\ UNCHANGED <<bgImageRef, bgVideoRef, playerVars, fnVars, appVars>>

\* backgroundType / backgroundSource change: the commit renders the state as
\* last set, runs both cleanups and then both effects, the session effect
\* with the bgAssetsLoaded of this render.
ChangeBackground ==
    /\ bgMounted
    /\ \E c \in BgConfigs \ {bgConfig} :
         /\ bgConfig' = c
         /\ BgEffect(c)
         /\ sessionBg' = SessionEffect(bgState, c)
    /\ bgAssetsLoaded' = bgState
    /\ bgVideoRef' = BgCleanup
    /\ painted' = "none"
    /\ UNCHANGED <<bgMounted, bgImageRef, playerVars, fnVars, appVars>>

\* The render a setBgAssetsLoaded call scheduled: only the session effect
\* has a changed dependency.
Rerender ==
    /\ bgMounted
    /\ bgState # bgAssetsLoaded
    /\ bgAssetsLoaded' = bgState
    /\ sessionBg' = SessionEffect(bgState, bgConfig)
    /\ painted' = "none"
    /\ UNCHANGED <<bgMounted, bgConfig, bgState, loading, loadFailed,
                   loadedCur, bgImageRef, bgVideoRef, playerVars, fnVars, appVars>>

\* Another dependency of the session effect changes (script, size, ...).
ChangeOtherInput ==
    /\ bgMounted
    /\ bgAssetsLoaded' = bgState
    /\ sessionBg' = SessionEffect(bgState, bgConfig)
    /\ painted' = "none"
    /\ UNCHANGED <<bgMounted, bgConfig, bgState, loading, loadFailed,
                   loadedCur, bgImageRef, bgVideoRef, playerVars, fnVars, appVars>>

\* img.onload / vid.onloadeddata of asset a.
LoadEvent(a) ==
    /\ a \in loading
    /\ loading' = loading \ {a}
    /\ bgImageRef' = IF a \in Images THEN a ELSE bgImageRef
    /\ bgVideoRef' = IF a \in Videos THEN a ELSE bgVideoRef
    /\ bgState' = TRUE
    /\ loadedCur' = (loadedCur \/ a = bgConfig)
    /\ painted' = "none"
    /\ UNCHANGED <<bgMounted, bgConfig, bgAssetsLoaded, loadFailed,
                   sessionBg, playerVars, fnVars, appVars>>

\* The load of asset a ends in an error event: no handler is installed.
LoadError(a) ==
    /\ a \in loading
    /\ loading' = loading \ {a}
    /\ loadFailed' = loadFailed \cup {a}
    /\ painted' = "none"
    /\ UNCHANGED <<bgMounted, bgConfig, bgState, bgAssetsLoaded, loadedCur,
                   bgImageRef, bgVideoRef, sessionBg, playerVars, fnVars, appVars>>

\* A frame of the live session paints its background.
PaintFrame ==
    /\ sessionBg # "none"
    /\ painted' = drawBackground(sessionBg)
    /\ UNCHANGED <<bgMounted, bgConfig, bgState, bgAssetsLoaded, loading,
                   loadFailed, loadedCur, bgImageRef, bgVideoRef, sessionBg,
                   playerVars, fnVars, appVars>>

GateNext ==
    \/ GateMount
    \/ ChangeBackground
    \/ Rerender
    \/ ChangeOtherInput
    \/ \E a \in Images \cup Videos : LoadEvent(a)
    \/ \E a \in Images \cup Videos : LoadError(a)
    \/ PaintFrame

\* The player's own state does not move while the gate is explored.
PlayerIdle == PlayerInit /\ browser = [capture |-> TRUE, supported |-> AllListed]

GateInit == PlayerIdle /\ GateIdle /\ FnIdle /\ AppIdle

GateSpec == GateInit /\ [][GateNext]_vars

\* ==================================================================
\* The timeline builder, the frame painter and the parser
\* ==================================================================
\* Times are JavaScript numbers in the source; they are exact fractions
\* <<numerator, denominator>> in lowest terms here, in milliseconds.
RECURSIVE GCD(_, _)
GCD(a, b) == IF b = 0 THEN a ELSE GCD(b, a % b)

Norm(n, d) == LET g == GCD(Abs(n), d) IN <<n \div g, d \div g>>
Rat(n) == <<n, 1>>
LCM(a, b) == (a \div GCD(a, b)) * b
RatAdd(a, b) ==
    LET l == LCM(a[2], b[2])
    IN  Norm(a[1] * (l \div a[2]) + b[1] * (l \div b[2]), l)
RatSub(a, b) == RatAdd(a, <<-b[1], b[2]>>)
RatMul(a, b) ==
    LET x == Norm(a[1], b[2])
        y == Norm(b[1], a[2])
    IN  <<x[1] * y[1], x[2] * y[2]>>
RatDiv(a, n) == RatMul(a, <<1, n>>)
RatLt(a, b) == a[1] * b[2] < b[1] * a[2]
RatLe(a, b) == a[1] * b[2] <= b[1] * a[2]
RatMax(a, b) == IF RatLt(a, b) THEN b ELSE a
RatMin(a, b) == IF RatLt(b, a) THEN b ELSE a

\* ------------------------------------------------------ drift correction
timeScale_Inclusive(aud, lastEnd) ==
    IF /\ aud # 0
       /\ Abs(aud - lastEnd) > DriftMinMs
       /\ 10 * aud >= 8 * lastEnd
       /\ 10 * aud <= 12 * lastEnd
    THEN Norm(aud, lastEnd)
    ELSE Rat(1)

\* timeScale for a known audio duration aud (ms, 0 = unknown) and the end of
\* the last segment (ms).
timeScale(aud, lastEnd) ==
    IF TimeScaleApplies(aud, lastEnd) THEN Norm(aud, lastEnd) ELSE Rat(1)

\* ----------------------------------------------------- timestamped mode
SegmentWords_SignSlip(st, en, n) ==
    LET timePerWord == IF n > 0 THEN RatDiv(RatSub(st, en), n) ELSE Rat(0)
    IN  [i \in 1..n |->
            [absoluteStartTime |-> RatAdd(st, RatMul(Rat(i - 1), timePerWord)),
             duration |-> timePerWord]]

SegmentWords_OneExtra(st, en, n) ==
    LET timePerWord == IF n > 0 THEN RatDiv(RatSub(en, st), n + 1) ELSE Rat(0)
    IN  [i \in 1..n |->
            [absoluteStartTime |-> RatAdd(st, RatMul(Rat(i - 1), timePerWord)),
             duration |-> timePerWord]]

\* A segment is [start, end, n]: its bounds in ms and the number of words of
\* its text.  wordsWithTiming of a segment with scaled bounds st, en.
SegmentWords(st, en, n) ==
    LET timePerWord == IF n > 0 THEN RatDiv(RatSub(en, st), n) ELSE Rat(0)
    IN  [i \in 1..n |->
            [absoluteStartTime |-> RatAdd(st, RatMul(Rat(i - 1), timePerWord)),
             duration |-> timePerWord]]

pageLayouts(segs, aud) ==
    LET scale == timeScale(aud, segs[Len(segs)].end)
    IN  [k \in 1..Len(segs) |->
            LET st == RatMul(Rat(segs[k].start), scale)
                en == RatMul(Rat(segs[k].end), scale)
            IN  [start |-> st, end |-> en,
                 layout |-> SegmentWords(st, en, segs[k].n)]]

SegmentsDuration_NoTail(pages, aud) == RatMax(pages[Len(pages)].end, Rat(aud))

\* totalDuration of timestamped mode.
SegmentsDuration(pages, aud) ==
    RatMax(RatAdd(pages[Len(pages)].end, Rat(TailMs)), Rat(aud))

RECURSIVE FindPage(_, _, _)
\* pageLayouts.find(p => t >= p.start && t < p.end), from index k on; 0 when
\* no page is found.
FindPage(pages, t, k) ==
    IF k > Len(pages) THEN 0
    ELSE IF RatLe(pages[k].start, t) /\ RatLt(t, pages[k].end) THEN k
    ELSE FindPage(pages, t, k + 1)

RECURSIVE FindFirstEnded(_, _, _)
FindFirstEnded(pages, t, k) ==
    IF k > Len(pages) THEN 0
    ELSE IF RatLe(pages[k].end, t) THEN k
    ELSE FindFirstEnded(pages, t, k + 1)

RECURSIVE FindLastEnded(_, _, _)
\* [...pageLayouts].reverse().find(p => p.end <= t), from index k down.
FindLastEnded(pages, t, k) ==
    IF k < 1 THEN 0
    ELSE IF RatLe(pages[k].end, t) THEN k
    ELSE FindLastEnded(pages, t, k - 1)

PrevSegment_Forward(pages, t) == FindFirstEnded(pages, t, 1)

PrevSegment(pages, t) == FindLastEnded(pages, t, Len(pages))

\* Index of the active page at visual time t.
ActivePage(pages, t) ==
    LET found == FindPage(pages, t, 1)
    IN  IF found # 0 THEN found
        ELSE IF RatLt(t, pages[1].start) THEN 1
        ELSE IF RatLe(pages[Len(pages)].end, t) THEN Len(pages)
        ELSE IF PrevSegment(pages, t) # 0 THEN PrevSegment(pages, t)
        ELSE 1

\* ------------------------------------------------------------ paged mode
WORDS_PER_PAGE == 5

\* chunk(allWords, WORDS_PER_PAGE): the sizes of the pages of n words.
PageSizes(n) ==
    [k \in 1..((n + WORDS_PER_PAGE - 1) \div WORDS_PER_PAGE) |->
        Min(WORDS_PER_PAGE, n - (k - 1) * WORDS_PER_PAGE)]

RECURSIVE chunk(_, _)
\* chunk(arr, size): slices of size elements in order, the last one shorter.
chunk(arr, size) ==
    IF arr = <<>> THEN <<>>
    ELSE <<SubSeq(arr, 1, Min(size, Len(arr)))>>
         \o chunk(SubSeq(arr, Min(size, Len(arr)) + 1, Len(arr)), size)

\* pageDuration of paged mode for n words.
PageDuration(n, aud) ==
    LET total == Rat(PagedTotal(aud, n))
    IN  IF Len(PageSizes(n)) > 0 THEN RatDiv(total, Len(PageSizes(n))) ELSE total

\* Math.floor of a fraction.
MathFloor(r) == r[1] \div r[2]

\* pageIndex of the paged render loop at visualTime, for count pages.
pageIndex(visualTime, duration, count) ==
    Min(count - 1, MathFloor(RatMul(visualTime, <<duration[2], duration[1]>>)))

PagedLayouts_FullSlot(n, aud) ==
    LET pages == PageSizes(n)
        total == Rat(PagedTotal(aud, n))
        pageDuration == IF Len(pages) > 0 THEN RatDiv(total, Len(pages))
                        ELSE total
    IN  [k \in 1..Len(pages) |->
            LET pageStartTime == RatMul(Rat(k - 1), pageDuration)
                timePerWord ==
                    IF pages[k] > 0
                    THEN RatDiv(pageDuration, pages[k])
                    ELSE Rat(0)
            IN  [layout |->
                   [i \in 1..pages[k] |->
                      [absoluteStartTime |->
                           RatAdd(pageStartTime, RatMul(Rat(i - 1), timePerWord)),
                       duration |-> timePerWord]]]]

PagedLayouts(n, aud) ==
    LET pages == PageSizes(n)
        total == Rat(PagedTotal(aud, n))
        pageDuration == IF Len(pages) > 0 THEN RatDiv(total, Len(pages))
                        ELSE total
    IN  [k \in 1..Len(pages) |->
            LET pageStartTime == RatMul(Rat(k - 1), pageDuration)
                timePerWord ==
                    IF pages[k] > 0
                    THEN RatDiv(RatMul(pageDuration, <<9, 10>>), pages[k])
                    ELSE Rat(0)
            IN  [layout |->
                   [i \in 1..pages[k] |->
                      [absoluteStartTime |->
                           RatAdd(pageStartTime, RatMul(Rat(i - 1), timePerWord)),
                       duration |-> timePerWord]]]]

\* ---------------------------------------------------------- ambient mode
AmbientLayout_LongWindow(script) ==
    [i \in 1..Len(script) |->
        [absoluteStartTime |-> Rat(WordStart(script, i)),
         duration |-> Rat(2 * defaultTypeSpeed)]]

AmbientLayout(script) ==
    [i \in 1..Len(script) |->
        [absoluteStartTime |-> Rat(WordStart(script, i)),
         duration |-> Rat(defaultTypeSpeed)]]

\* ------------------------------------------------------------- the inputs
MaxSegments == 3
MaxSegWords == 2
MaxScriptWords == 11

GridMs == {0, 1000, 2000, 3000, 4000}

SegmentRecs ==
    { g \in [start : GridMs, end : GridMs, n : 0..MaxSegWords] : g.start < g.end }

\* Transcripts as the application's data model describes them: start < end,
\* ordered by start, not overlapping (gaps are allowed).
SegmentLists ==
    UNION { { q \in [1..k -> SegmentRecs] :
                \A i \in 1..(k - 1) : q[i].end <= q[i + 1].start } :
            k \in 1..MaxSegments }

FrameAuds == {0, 3200, 4600, 4800, 6000}
FrameTimes == {0, 500, 1000, 1500, 2000, 2500, 3000, 4000, 4600, 5000, 6000}

\* Audio durations against a last segment end, around every threshold of
\* the drift correction.
DriftCases ==
    ({0, 79999, 80000, 80001, 99499, 99500, 100000, 100500, 100501, 115000,
      119999, 120000, 120001, 200000} \X {100000})
    \cup ({0, 3199, 3200, 3201, 3500, 3501, 4000, 4499, 4500, 4501, 4799,
           4800, 4801, 8000} \X {4000})
    \cup ({400, 500, 1000, 1100, 1200} \X {1000})

Punctuations == {"plain", "comma", "stop"}
AmbientScripts ==
    UNION { [1..k -> Punctuations] : k \in 0..3 }

\* ------------------------------------------------------------- the calls
\* No call is in progress.
Idle == call.fn = "none" /\ layout = <<>>

\* The call returns; its layout is dropped with the session.
Return ==
    /\ call.fn # "none"
    /\ call' = [fn |-> "none"]
    /\ layout' = <<>>
    /\ UNCHANGED <<playerVars, gateVars, appVars>>

TimeScaleCall ==
    /\ Idle
    /\ \E c \in DriftCases :
         call' = [fn |-> "timeScale", aud |-> c[1], lastEnd |-> c[2],
                  scale |-> timeScale(c[1], c[2]),
                  scaledEnd |-> RatMul(Rat(c[2]), timeScale(c[1], c[2]))]
    /\ layout' = <<>>
    /\ UNCHANGED <<playerVars, gateVars, appVars>>

\* One frame of the timestamped render loop at elapsed time t.
SegmentsFrame ==
    /\ Idle
    /\ \E segs \in SegmentLists, aud \in FrameAuds, t \in FrameTimes :
         LET pages == pageLayouts(segs, aud)
             total == SegmentsDuration(pages, aud)
         IN  call' = [fn |-> "segments", segs |-> segs, aud |-> aud, t |-> t,
                      pages |-> pages, totalDuration |-> total,
                      active |-> ActivePage(pages, Rat(t)),
                      requestsFrame |-> RatLt(Rat(t), total)]
    /\ layout' = <<>>
    /\ UNCHANGED <<playerVars, gateVars, appVars>>

PagedTimeline ==
    /\ Idle
    /\ \E n \in 0..MaxScriptWords, aud \in FrameAuds :
         call' = [fn |-> "paged", n |-> n, aud |-> aud,
                  chunks |-> chunk([i \in 1..n |-> i], WORDS_PER_PAGE),
                  totalDuration |-> Rat(PagedTotal(aud, n)),
                  pageDuration |-> PageDuration(n, aud),
                  pages |-> PagedLayouts(n, aud)]
    /\ layout' = <<>>
    /\ UNCHANGED <<playerVars, gateVars, appVars>>

AmbientTimeline ==
    /\ Idle
    /\ \E script \in AmbientScripts :
         call' = [fn |-> "ambient", script |-> script,
                  pages |-> << [layout |-> AmbientLayout(script)] >>]
    /\ layout' = <<>>
    /\ UNCHANGED <<playerVars, gateVars, appVars>>

\* --------------------------------------------------- the frame painter
Animations == {"Typewriter", "FadeZoom", "DropIn"}

easeOutCubic(t) ==
    LET u == RatSub(Rat(1), t) IN RatSub(Rat(1), RatMul(u, RatMul(u, u)))

\* The fields calculateLayoutForWords gives a word with timing w.
LayoutWord(w) ==
    [absoluteStartTime |-> w.absoluteStartTime, duration |-> w.duration,
     alpha |-> Rat(0), scale |-> Rat(1), yOffset |-> Rat(0)]

calculateLayoutForWords(ws) == [i \in DOMAIN ws |-> LayoutWord(ws[i])]

animateWord_ScaleCarries(word, progress, animation) ==
    LET e == easeOutCubic(progress)
        rest == RatSub(Rat(1), e)
    IN  IF animation = "FadeZoom"
        THEN [word EXCEPT !.alpha = e,
                          !.scale = RatMul(word.scale,
                                           RatAdd(Rat(1), RatMul(<<1, 2>>, rest)))]
        ELSE IF animation = "DropIn"
        THEN [word EXCEPT !.alpha = e, !.yOffset = RatMul(Rat(-50), rest)]
        ELSE [word EXCEPT !.alpha = IF RatLe(Rat(0), progress) THEN Rat(1)
                                    ELSE Rat(0)]

\* The base animation of animateWord: the fields it leaves on the word.
animateWord(word, progress, animation) ==
    LET e == easeOutCubic(progress)
        rest == RatSub(Rat(1), e)
    IN  IF animation = "FadeZoom"
        THEN [word EXCEPT !.alpha = e,
                          !.scale = RatAdd(Rat(1), RatMul(<<1, 2>>, rest))]
        ELSE IF animation = "DropIn"
        THEN [word EXCEPT !.alpha = e, !.yOffset = RatMul(Rat(-50), rest)]
        ELSE [word EXCEPT !.alpha = IF RatLe(Rat(0), progress) THEN Rat(1)
                                    ELSE Rat(0)]

IsActive_Inclusive(wordElapsedTime, duration) ==
    /\ duration # Rat(0)
    /\ RatLe(Rat(0), wordElapsedTime)
    /\ RatLe(wordElapsedTime, duration)

\* isActive of renderPage: a duration of 0 is falsy.
IsActive(wordElapsedTime, duration) ==
    /\ duration # Rat(0)
    /\ RatLe(Rat(0), wordElapsedTime)
    /\ RatLt(wordElapsedTime, duration)

\* renderPage at elapsedTime t: the words as the frame leaves them, and for
\* every word whether animateWord drew it and with which values.
renderPage(words, t, animation) ==
    LET wordElapsedTime(w) == RatSub(t, w.absoluteStartTime)
        skipped(w) == RatLt(wordElapsedTime(w), Rat(0))
        progress(w) == RatMin(Rat(1), RatDiv(wordElapsedTime(w), FADE_DURATION))
        after(w) == IF skipped(w) THEN w
                    ELSE animateWord(w, progress(w), animation)
    IN  [words |-> [i \in DOMAIN words |-> after(words[i])],
         drawn |-> [i \in DOMAIN words |->
                      IF skipped(words[i]) THEN [painted |-> FALSE]
                      ELSE [painted |-> TRUE,
                            isActive |-> IsActive(wordElapsedTime(words[i]),
                                                  words[i].duration),
                            alpha |-> after(words[i]).alpha,
                            scale |-> after(words[i]).scale,
                            yOffset |-> after(words[i]).yOffset]]]

Timing(s, d) == [absoluteStartTime |-> Rat(s), duration |-> Rat(d)]

\* Word timings of the pages painted: an ambient page, a timestamped
\* segment, and words without an active window.
PaintPages ==
    { << Timing(0, 250), Timing(250, 250), Timing(875, 250) >>,
      << Timing(1000, 500), Timing(1500, 500) >>,
      << Timing(0, 0), Timing(1000, 0) >> }

PaintTimes == {0, 40, 250, 999, 1000, 1040, 1499, 1500, 2000}

LayoutCall ==
    /\ Idle
    /\ \E ws \in PaintPages, a \in Animations :
         layout' = [animation |-> a, words |-> calculateLayoutForWords(ws)]
    /\ call' = [fn |-> "calculateLayoutForWords"]
    /\ UNCHANGED <<playerVars, gateVars, appVars>>

\* A frame paints the current layout at elapsed time t.
PaintCall ==
    /\ layout # <<>>
    /\ \E t \in PaintTimes :
         LET r == renderPage(layout.words, Rat(t), layout.animation)
         IN  /\ layout' = [layout EXCEPT !.words = r.words]
             /\ call' = [fn |-> "renderPage", t |-> t, drawn |-> r.drawn]
    /\ UNCHANGED <<playerVars, gateVars, appVars>>

\* ------------------------------------------------------------- the parser
\* A word is the sequence of its characters; "wiggle", "glitch" and "pulse"
\* stand for the letters of an effect name.
Effects == {<<"wiggle">>, <<"glitch">>, <<"pulse">>}

startsWith(w, c) == Len(w) > 0 /\ w[1] = c
endsWith(w, c) == Len(w) > 0 /\ w[Len(w)] = c

\* rawWord.replace(/^\*|\*$/g, ''): one marker off each end that has one.
StripMarkers(w) ==
    LET a == IF startsWith(w, "*") THEN Tail(w) ELSE w
    IN  IF endsWith(a, "*") THEN SubSeq(a, 1, Len(a) - 1) ELSE a

\* Index of the first c in s at or after from, 0 if there is none.
IndexOf(s, c, from) ==
    IF \E i \in from..Len(s) : s[i] = c
    THEN CHOOSE i \in from..Len(s) :
            s[i] = c /\ \A j \in from..(i - 1) : s[j] # c
    ELSE 0

\* The end of the match of /\[([^\]]+)\]\(([^)]+)\)/ that starts at i, as
\* <<index of ']', index of ')'>>, or <<0, 0>>.
MatchAt(s, i) ==
    LET j == IndexOf(s, "]", i + 1)
        k == IF j # 0 THEN IndexOf(s, ")", j + 2) ELSE 0
    IN  IF /\ s[i] = "["
           /\ j >= i + 2
           /\ j + 1 <= Len(s)
           /\ s[j + 1] = "("
           /\ k >= j + 3
        THEN <<j, k>> ELSE <<0, 0>>

\* regex.exec from lastIndex (characters already consumed): the start of the
\* leftmost match, 0 if there is none.
NextMatch(s, lastIndex) ==
    IF \E i \in (lastIndex + 1)..Len(s) : MatchAt(s, i) # <<0, 0>>
    THEN CHOOSE i \in (lastIndex + 1)..Len(s) :
            /\ MatchAt(s, i) # <<0, 0>>
            /\ \A h \in (lastIndex + 1)..(i - 1) : MatchAt(s, h) = <<0, 0>>
    ELSE 0

RECURSIVE Split(_, _)
\* params.split('|')
Split(s, c) ==
    LET i == IndexOf(s, c, 1)
    IN  IF i = 0 THEN <<s>>
        ELSE <<SubSeq(s, 1, i - 1)>> \o Split(SubSeq(s, i + 1, Len(s)), c)

RECURSIVE StyleOf(_, _)
\* parts.forEach: the last effect name and the last other part win.
StyleOf(parts, style) ==
    IF parts = <<>> THEN style
    ELSE StyleOf(Tail(parts),
                 IF Head(parts) \in Effects
                 THEN [style EXCEPT !.effect = Head(parts)]
                 ELSE [style EXCEPT !.color = Head(parts)])

NoStyle == [color |-> "undefined", effect |-> "undefined"]

RECURSIVE ParseLoop_DropsPlain(_, _, _, _)
ParseLoop_DropsPlain(s, lastIndex, spans, cleanText) ==
    LET i == NextMatch(s, lastIndex)
    IN  IF i = 0
        THEN IF lastIndex < Len(s)
             THEN [spans |-> Append(spans, [text |-> SubSeq(s, lastIndex + 1, Len(s)),
                                            style |-> NoStyle]),
                   cleanText |-> cleanText \o SubSeq(s, lastIndex + 1, Len(s))]
             ELSE [spans |-> spans, cleanText |-> cleanText]
        ELSE LET m == MatchAt(s, i)
                 plainPart == SubSeq(s, lastIndex + 1, i - 1)
                 styledText == SubSeq(s, i + 1, m[1] - 1)
                 params == SubSeq(s, m[1] + 2, m[2] - 1)
                 before == IF i - 1 > lastIndex
                           THEN Append(spans, [text |-> plainPart, style |-> NoStyle])
                           ELSE spans
             IN  ParseLoop_DropsPlain(s, m[2],
                     Append(before, [text |-> styledText,
                                     style |-> StyleOf(Split(params, "|"), NoStyle)]),
                     cleanText \o styledText)

RECURSIVE ParseLoop(_, _, _, _)
\* The while loop over the matches and the remainder after the last one.
ParseLoop(s, lastIndex, spans, cleanText) ==
    LET i == NextMatch(s, lastIndex)
    IN  IF i = 0
        THEN IF lastIndex < Len(s)
             THEN [spans |-> Append(spans, [text |-> SubSeq(s, lastIndex + 1, Len(s)),
                                            style |-> NoStyle]),
                   cleanText |-> cleanText \o SubSeq(s, lastIndex + 1, Len(s))]
             ELSE [spans |-> spans, cleanText |-> cleanText]
        ELSE LET m == MatchAt(s, i)
                 plainPart == SubSeq(s, lastIndex + 1, i - 1)
                 styledText == SubSeq(s, i + 1, m[1] - 1)
                 params == SubSeq(s, m[1] + 2, m[2] - 1)
                 before == IF i - 1 > lastIndex
                           THEN Append(spans, [text |-> plainPart, style |-> NoStyle])
                           ELSE spans
                 clean == IF i - 1 > lastIndex THEN cleanText \o plainPart
                          ELSE cleanText
             IN  ParseLoop(s, m[2],
                     Append(before, [text |-> styledText,
                                     style |-> StyleOf(Split(params, "|"), NoStyle)]),
                     clean \o styledText)

parseStyledWord(rawWord) ==
    LET textToParse == StripMarkers(rawWord)
        r == ParseLoop(textToParse, 0, <<>>, <<>>)
    IN  [isHighlight |-> startsWith(rawWord, "*") /\ endsWith(rawWord, "*"),
         cleanText |-> IF r.spans = <<>> THEN textToParse ELSE r.cleanText,
         spans |-> IF r.spans = <<>>
                   THEN << [text |-> textToParse, style |-> NoStyle] >>
                   ELSE r.spans]

MaxPieces == 4

\* What raw words are put together from: characters, a bracket group, a
\* parameter group and two whole style directives.
Pieces ==
    { <<"a">>, <<"*">>, <<"[">>, <<"]">>, <<"(">>, <<")">>, <<"|">>,
      <<"[", "a", "]">>, <<"(", "b", ")">>,
      <<"[", "a", "b", "]", "(", "r", "e", "d", ")">>,
      <<"[", "c", "]", "(", "wiggle", "|", "b", ")">> }

RECURSIVE Flatten(_)
Flatten(q) == IF q = <<>> THEN <<>> ELSE Head(q) \o Flatten(Tail(q))

\* Words of script.split(/\s+/).filter(w => w): not empty, no whitespace.
RawWords ==
    { Flatten(q) : q \in UNION { [1..k -> Pieces] : k \in 1..MaxPieces } }

ParseCall ==
    /\ Idle
    /\ \E w \in RawWords :
         call' = [fn |-> "parseStyledWord", rawWord |-> w,
                  out |-> parseStyledWord(w)]
    /\ layout' = <<>>
    /\ UNCHANGED <<playerVars, gateVars, appVars>>

\* ------------------------------------------------- the drawing of a word
VisualStyles == {"Minimalist", "Glitchy", "Retro"}

THEME_CONFIG(visualStyle) ==
    IF visualStyle = "Minimalist"
    THEN [baseColor |-> "#FFFFFF", highlightColor |-> "#FFE100",
          accentColor |-> "#FF3333"]
    ELSE IF visualStyle = "Glitchy"
    THEN [baseColor |-> "#00FF00", highlightColor |-> "#FFFFFF",
          accentColor |-> "#FF00FF"]
    ELSE [baseColor |-> "#FFB86C", highlightColor |-> "#FFFF00",
          accentColor |-> "#FF5555"]

\* span.style.color as a condition: undefined and '' are falsy.
HasColor(span) == span.style.color # "undefined" /\ span.style.color # <<>>

spanColor_ExplicitFirst(currentTheme, word, span, isActive) ==
    IF HasColor(span) THEN span.style.color
    ELSE IF isActive THEN currentTheme.highlightColor
    ELSE IF word.isHighlight THEN currentTheme.accentColor
    ELSE currentTheme.baseColor

\* spanColor of animateWord for one span of the word.
spanColor(currentTheme, word, span, isActive) ==
    LET baseColor == IF isActive THEN currentTheme.highlightColor
                     ELSE IF word.isHighlight THEN currentTheme.accentColor
                     ELSE currentTheme.baseColor
    IN  IF isActive THEN currentTheme.highlightColor
        ELSE IF HasColor(span) THEN span.style.color
        ELSE baseColor

bounce_SlowFall(activeProgress) ==
    LET activeScale ==
            IF RatLt(activeProgress, <<1, 5>>)
            THEN RatAdd(Rat(1), RatMul(RatMul(activeProgress, Rat(5)), <<3, 20>>))
            ELSE RatSub(<<23, 20>>,
                        RatMul(RatSub(activeProgress, <<1, 5>>), <<3, 20>>))
    IN  RatMax(Rat(1), activeScale)

\* activeScale of animateWord for an active word.
bounce(activeProgress) ==
    LET activeScale ==
            IF RatLt(activeProgress, <<1, 5>>)
            THEN RatAdd(Rat(1), RatMul(RatMul(activeProgress, Rat(5)), <<3, 20>>))
            ELSE RatSub(<<23, 20>>,
                        RatMul(RatMul(RatSub(activeProgress, <<1, 5>>), <<5, 4>>),
                               <<3, 20>>))
    IN  RatMax(Rat(1), activeScale)

activeScale(isActive, activeProgress) ==
    IF isActive THEN bounce(activeProgress) ELSE Rat(1)

\* Words drawn: plain, emphasized, with a colored span, with an effect
\* only, with an empty color, and an emphasized word with a colored span
\* between plain text.
DrawnWords ==
    { <<"a">>, <<"*", "a", "*">>,
      <<"[", "a", "b", "]", "(", "r", "e", "d", ")">>,
      <<"[", "a", "]", "(", "wiggle", ")">>,
      <<"[", "a", "]", "(", "wiggle", "|", ")">>,
      <<"*", "x", "[", "c", "]", "(", "wiggle", "|", "b", ")", "y", "*">> }

DrawDurations == {0, 250, 500}
DrawTimes == {0, 25, 50, 75, 100, 125, 200, 249, 250, 300, 375, 499, 500, 600}

\* renderPage for one word at wordElapsedTime >= 0, and the animateWord
\* call it makes: the scale of the bounce, the scale drawn with and the
\* color of every span.
AnimateWordCall ==
    /\ Idle
    /\ \E rawWord \in DrawnWords, visualStyle \in VisualStyles,
          animation \in Animations, d \in DrawDurations, t \in DrawTimes :
         \E parsed \in { parseStyledWord(rawWord) } :
           LET wordElapsedTime == Rat(t)
               progress == RatMin(Rat(1), RatDiv(wordElapsedTime, FADE_DURATION))
               isActive == IsActive(wordElapsedTime, Rat(d))
               activeProgress == IF d # 0 THEN RatMul(wordElapsedTime, <<1, d>>)
                                 ELSE Rat(0)
               word == animateWord([alpha |-> Rat(0), scale |-> Rat(1),
                                    yOffset |-> Rat(0)], progress, animation)
           IN  call' = [fn |-> "animateWord", rawWord |-> rawWord,
                        word |-> parsed, visualStyle |-> visualStyle,
                        animation |-> animation,
                        isActive |-> isActive, activeProgress |-> activeProgress,
                        activeScale |-> activeScale(isActive, activeProgress),
                        finalScale |-> RatMul(word.scale,
                                              activeScale(isActive, activeProgress)),
                        spanColors |->
                            [k \in DOMAIN parsed.spans |->
                                spanColor(THEME_CONFIG(visualStyle), parsed,
                                          parsed.spans[k], isActive)]]
    /\ layout' = <<>>
    /\ UNCHANGED <<playerVars, gateVars, appVars>>

\* ------------------------------------------------------ the word splitter
Whitespace == {" ", "\n"}

RECURSIVE SplitWords(_, _)
\* script.split(/\s+/).filter(w => w): the maximal runs of characters that
\* are not whitespace; run is the run being read.
SplitWords(s, run) ==
    IF s = <<>> THEN (IF run = <<>> THEN <<>> ELSE <<run>>)
    ELSE IF Head(s) \in Whitespace
    THEN (IF run = <<>> THEN <<>> ELSE <<run>>) \o SplitWords(Tail(s), <<>>)
    ELSE SplitWords(Tail(s), Append(run, Head(s)))

\* allWords of animateScript.
allWords(script) ==
    LET ws == SplitWords(script, <<>>)
    IN  [i \in DOMAIN ws |-> parseStyledWord(ws[i])]

\* "You aren't *busy*; you are *irrelevant*."
BusyScript ==
    <<"Y", "o", "u", " ", "a", "r", "e", "n", "'", "t", " ",
      "*", "b", "u", "s", "y", "*", ";", " ", "y", "o", "u", " ",
      "a", "r", "e", " ",
      "*", "i", "r", "r", "e", "l", "e", "v", "a", "n", "t", "*", ".">>

\* Words a script is written with, and what separates them.
ScriptWords ==
    { <<"a">>, <<"a", ",">>, <<"*", "a", "*">>, <<"*", "a", "*", ".">>,
      <<"*", "a", "b", "*", ",">>, <<"*", "a">>, <<"a", "*", "!">> }
Separators == { <<" ">>, <<" ", " ">>, <<"\n">> }

StyledScripts ==
    {BusyScript}
    \cup ScriptWords
    \cup { a \o sep \o b : a \in ScriptWords, sep \in Separators, b \in ScriptWords }
    \cup { <<" ">> \o a \o <<" ">> : a \in ScriptWords }

SplitCall ==
    /\ Idle
    /\ \E script \in StyledScripts :
         call' = [fn |-> "allWords", script |-> script,
                  rawWords |-> SplitWords(script, <<>>),
                  out |-> allWords(script)]
    /\ layout' = <<>>
    /\ UNCHANGED <<playerVars, gateVars, appVars>>

\* ------------------------------------------------------- the layout fit
FontSizes == {"Small", "Medium", "Large"}
FontFamilies == {"Sans", "Dongle", "Pen"}

FONT_CONFIG(fontSize) ==
    IF fontSize = "Small" THEN [size |-> Rat(24), lineHeight |-> Rat(40)]
    ELSE IF fontSize = "Medium" THEN [size |-> Rat(32), lineHeight |-> Rat(50)]
    ELSE [size |-> Rat(40), lineHeight |-> Rat(60)]

\* config of animateScript: the size class scaled for the font family.
FontConfig(fontSize, fontFamily) ==
    LET c == FONT_CONFIG(fontSize)
    IN  IF fontFamily = "Dongle"
        THEN [size |-> RatMul(c.size, Rat(2)),
              lineHeight |-> RatMul(c.lineHeight, <<3, 2>>)]
        ELSE IF fontFamily = "Pen"
        THEN [size |-> RatMul(c.size, <<3, 2>>),
              lineHeight |-> RatMul(c.lineHeight, <<6, 5>>)]
        ELSE c

FontStep == 2
MinFontSize == 10
MaxLoops == 20

\* ctx.measureText(text).width for a text of n characters at font size
\* size: every character, the space included, advances half an em.
measureText(n, size) == RatMul(Rat(n), RatMul(size, <<1, 2>>))

RECURSIVE WrapLines(_, _, _, _, _)
\* The greedy line wrapping: words are the lengths of the words' cleanText,
\* chars and count describe currentLineWords joined with spaces; the result
\* is the number of lines.
WrapLines(words, chars, count, size, maxWidth) ==
    IF words = <<>> THEN (IF count > 0 THEN 1 ELSE 0)
    ELSE LET testChars == IF count = 0 THEN Head(words)
                          ELSE chars + 1 + Head(words)
         IN  IF RatLt(maxWidth, measureText(testChars, size)) /\ count > 0
             THEN 1 + WrapLines(Tail(words), Head(words), 1, size, maxWidth)
             ELSE WrapLines(Tail(words), testChars, count + 1, size, maxWidth)

\* Characters of the words at the indices of line, joined by single spaces.
JoinedChars(words, line) ==
    SumSeq([k \in DOMAIN line |-> words[line[k]]]) + Len(line) - 1

RECURSIVE GreedyWrap_ClosesEmptyLine(_, _, _, _, _, _)
GreedyWrap_ClosesEmptyLine(words, i, lines, currentLineWords, size, maxWidth) ==
    IF i > Len(words)
    THEN IF Len(currentLineWords) > 0 THEN Append(lines, currentLineWords)
         ELSE lines
    ELSE LET testLineWords == Append(currentLineWords, i)
         IN  IF RatLt(maxWidth, measureText(JoinedChars(words, testLineWords), size))
             THEN GreedyWrap_ClosesEmptyLine(words, i + 1,
                      Append(lines, currentLineWords), <<i>>, size, maxWidth)
             ELSE GreedyWrap_ClosesEmptyLine(words, i + 1, lines, testLineWords,
                                             size, maxWidth)

RECURSIVE GreedyWrap(_, _, _, _, _, _)
\* measuredWords.forEach from word i on and the push of the last line: the
\* lines, each the indices of its words (words[i] is the length of the
\* cleanText of word i).
GreedyWrap(words, i, lines, currentLineWords, size, maxWidth) ==
    IF i > Len(words)
    THEN IF Len(currentLineWords) > 0 THEN Append(lines, currentLineWords)
         ELSE lines
    ELSE LET testLineWords == Append(currentLineWords, i)
         IN  IF /\ RatLt(maxWidth,
                         measureText(JoinedChars(words, testLineWords), size))
                /\ Len(currentLineWords) > 0
             THEN GreedyWrap(words, i + 1, Append(lines, currentLineWords),
                             <<i>>, size, maxWidth)
             ELSE GreedyWrap(words, i + 1, lines, testLineWords, size, maxWidth)

RECURSIVE LayoutLoop_FloorBeforeStep(_, _, _, _, _, _)
LayoutLoop_FloorBeforeStep(words, w, h, lineHeightRatio, finalFontSize, loops) ==
    LET padding == RatDiv(Rat(w), 10)
        maxWidth == RatSub(Rat(w), RatMul(padding, Rat(2)))
        room == RatSub(Rat(h), RatMul(padding, Rat(2)))
        lines == WrapLines(words, 0, 0, finalFontSize, maxWidth)
        totalHeight == RatMul(Rat(lines), RatMul(finalFontSize, lineHeightRatio))
        over == RatLt(room, totalHeight)
        nextSize == IF over THEN RatSub(finalFontSize, Rat(FontStep))
                    ELSE finalFontSize
    IN  IF over /\ RatLt(Rat(MinFontSize), finalFontSize) /\ loops + 1 < MaxLoops
        THEN LET r == LayoutLoop_FloorBeforeStep(words, w, h, lineHeightRatio,
                                                 nextSize, loops + 1)
             IN  [r EXCEPT !.passes = <<finalFontSize>> \o @]
        ELSE [finalFontSize |-> nextSize, lines |-> lines,
              totalHeight |-> totalHeight, loops |-> loops + 1,
              padding |-> padding, wrapSize |-> finalFontSize,
              lineWords |-> GreedyWrap(words, 1, <<>>, <<>>, finalFontSize,
                                       maxWidth),
              passes |-> <<finalFontSize>>]

RECURSIVE LayoutLoop(_, _, _, _, _, _)
\* The do-while of calculateLayoutForWords from its loops-th pass on:
\* wrapSize is the font size the last pass wrapped and measured at,
\* finalFontSize the size after its decrement, passes the sizes of the passes.
LayoutLoop(words, w, h, lineHeightRatio, finalFontSize, loops) ==
    LET padding == RatDiv(Rat(w), 10)
        maxWidth == RatSub(Rat(w), RatMul(padding, Rat(2)))
        room == RatSub(Rat(h), RatMul(padding, Rat(2)))
        lines == WrapLines(words, 0, 0, finalFontSize, maxWidth)
        totalHeight == RatMul(Rat(lines), RatMul(finalFontSize, lineHeightRatio))
        over == RatLt(room, totalHeight)
        nextSize == IF over THEN RatSub(finalFontSize, Rat(FontStep))
                    ELSE finalFontSize
    IN  IF over /\ RatLt(Rat(MinFontSize), nextSize) /\ loops + 1 < MaxLoops
        THEN LET r == LayoutLoop(words, w, h, lineHeightRatio, nextSize, loops + 1)
             IN  [r EXCEPT !.passes = <<finalFontSize>> \o @]
        ELSE [finalFontSize |-> nextSize, lines |-> lines,
              totalHeight |-> totalHeight, loops |-> loops + 1,
              padding |-> padding, wrapSize |-> finalFontSize,
              lineWords |-> GreedyWrap(words, 1, <<>>, <<>>, finalFontSize,
                                       maxWidth),
              passes |-> <<finalFontSize>>]

\* The font size, the lines and the height calculateLayoutForWords ends with.
LayoutFit(words, w, h, initialConfig) ==
    LayoutLoop(words, w, h,
               RatMul(initialConfig.lineHeight,
                      <<initialConfig.size[2], initialConfig.size[1]>>),
               initialConfig.size, 0)

\* lines.forEach of calculateLayoutForWords after the loop has ended with
\* fit: per line the y of its words and their x in order. line.width is the
\* width the last pass measured (at wrapSize); lineHeight and the advances
\* use the font set after the loop.
WordPositions(words, w, h, initialConfig, fit) ==
    LET lineHeightRatio == RatMul(initialConfig.lineHeight,
                                  <<initialConfig.size[2], initialConfig.size[1]>>)
        lineHeight == RatMul(fit.finalFontSize, lineHeightRatio)
        startY == RatMul(RatSub(Rat(h), fit.totalHeight), <<1, 2>>)
        finalSpaceWidth == measureText(1, fit.finalFontSize)
        width(line) == measureText(JoinedChars(words, line), fit.wrapSize)
        before(line, k) ==
            SumSeq([j \in 1..(k - 1) |-> words[line[j]]]) + (k - 1)
    IN  [l \in DOMAIN fit.lineWords |->
            [y |-> RatAdd(startY, RatMul(Rat(l - 1), lineHeight)),
             width |-> width(fit.lineWords[l]),
             x |-> [k \in DOMAIN fit.lineWords[l] |->
                      RatAdd(RatMul(RatSub(Rat(w), width(fit.lineWords[l])),
                                    <<1, 2>>),
                             measureText(before(fit.lineWords[l], k),
                                         fit.finalFontSize))]]]

\* The font size of fontString, which animateScript hands to renderPage and
\* animateWord sets as ctx.font for every word it draws.
DrawFontSize(initialConfig) == initialConfig.size

MaxLayoutWords == 5
WordLengths == {2, 8}
Canvases == { <<100, 100>>, <<400, 300>>, <<1280, 720>> }
LayoutTexts == UNION { [1..k -> WordLengths] : k \in 1..MaxLayoutWords }

FitCall ==
    /\ Idle
    /\ \E words \in LayoutTexts, cv \in Canvases,
          fontSize \in FontSizes, fontFamily \in FontFamilies :
         \E fit \in { LayoutFit(words, cv[1], cv[2],
                                FontConfig(fontSize, fontFamily)) } :
           call' = [fn |-> "layoutFit", words |-> words, w |-> cv[1], h |-> cv[2],
                    fontSize |-> fontSize, fontFamily |-> fontFamily,
                    fit |-> fit,
                    positions |-> WordPositions(words, cv[1], cv[2],
                                      FontConfig(fontSize, fontFamily), fit),
                    drawFontSize |-> DrawFontSize(FontConfig(fontSize, fontFamily))]
    /\ layout' = <<>>
    /\ UNCHANGED <<playerVars, gateVars, appVars>>

\* ---------------------------------------------------- script generation
\* The text the model returns is a sequence of characters; "han", "da" and
\* the like stand for one Hangul syllable each.
NonWordChars == {".", ",", "!", "?", "'", "(", ")", "*", " ", ";"}

\* [\w가-힣]
IsWordChar(c) == c \notin NonWordChars

CountOf(s, c) == Cardinality({ i \in DOMAIN s : s[i] = c })

RECURSIVE TrimText(_)
\* text.trim() on a sequence of characters
TrimText(s) ==
    IF s # <<>> /\ Head(s) \in Whitespace THEN TrimText(Tail(s))
    ELSE IF s # <<>> /\ s[Len(s)] \in Whitespace
    THEN TrimText(SubSeq(s, 1, Len(s) - 1))
    ELSE s

RECURSIVE JoinWords(_, _)
\* words.join(c)
JoinWords(words, c) ==
    IF words = <<>> THEN <<>>
    ELSE IF Len(words) = 1 THEN Head(words)
    ELSE Head(words) \o <<c>> \o JoinWords(Tail(words), c)

DanglingModifiers == {"han", "in", "ui", "deon", "neun", "eul", "reul"}
SentenceEnds == {".", "!", "?", "*", "da", "yo", "eum", "im"}
NounEndings ==
    << <<" ", "gyeol", "gwa", "da", ".">>, <<" ", "sang", "tae", "da", ".">>,
       <<" ", "chak", "gak", "i", "da", ".">>, <<" ", "jeon", "ryak", "i", "da", ".">> >>

\* The dangling-modifier test of repairKoreanSentence applies to repaired.
EndsDangling(repaired) ==
    LET lastChar == IF repaired = <<>> THEN "" ELSE repaired[Len(repaired)]
        effectiveLastChar ==
            IF lastChar = "*"
            THEN (IF Len(repaired) >= 2 THEN repaired[Len(repaired) - 1] ELSE "")
            ELSE lastChar
    IN  effectiveLastChar \in DanglingModifiers

\* Markers balanced and the markers around the whole text removed.
BalanceMarkers(text) ==
    LET t == TrimText(text)
        balanced ==
            IF CountOf(t, "*") % 2 # 0
            THEN (IF endsWith(t, "*") THEN SubSeq(t, 1, Len(t) - 1)
                  ELSE Append(t, "*"))
            ELSE t
    IN  IF startsWith(balanced, "*") /\ endsWith(balanced, "*")
           /\ Len(balanced) > 10
        THEN SubSeq(balanced, 2, Len(balanced) - 1)
        ELSE balanced

\* repairKoreanSentence; ending is the index Math.random picks.
repairKoreanSentence(text, ending) ==
    LET repaired == BalanceMarkers(text)
        lastChar == IF repaired = <<>> THEN "" ELSE repaired[Len(repaired)]
        effectiveLastChar ==
            IF lastChar = "*"
            THEN (IF Len(repaired) >= 2 THEN repaired[Len(repaired) - 1] ELSE "")
            ELSE lastChar
    IN  IF effectiveLastChar \in DanglingModifiers
        THEN repaired \o NounEndings[ending]
        ELSE IF effectiveLastChar \notin SentenceEnds /\ lastChar # "*"
        THEN Append(repaired, ".")
        ELSE repaired

\* targetWord.match(/^([^\w..]*)([\w..]+)([^\w..]*)$/): <<prefix, core,
\* suffix>>, or <<>> when the word does not match.
MatchCore(w) ==
    LET wordAt == { i \in DOMAIN w : IsWordChar(w[i]) }
        first == CHOOSE i \in wordAt : \A j \in wordAt : i <= j
        last == CHOOSE i \in wordAt : \A j \in wordAt : j <= i
    IN  IF wordAt = {} THEN <<>>
        ELSE IF \E i \in first..last : i \notin wordAt THEN <<>>
        ELSE << SubSeq(w, 1, first - 1), SubSeq(w, first, last),
                SubSeq(w, last + 1, Len(w)) >>

\* The word the fallback step writes in place of targetWord.
HighlightWord(targetWord) ==
    LET match == MatchCore(targetWord)
    IN  IF match # <<>>
        THEN match[1] \o <<"*">> \o match[2] \o <<"*">> \o match[3]
        ELSE <<"*">> \o targetWord \o <<"*">>

\* Text after the repair of the language.
Repaired(text, language, ending) ==
    IF language = "Korean" THEN repairKoreanSentence(text, ending)
    ELSE IF CountOf(text, "*") % 2 # 0 THEN Append(text, "*")
    ELSE text

\* Indices the fallback step may pick in words (Math.random).
Targets(words) ==
    LET candidates == { i \in DOMAIN words : Len(words[i]) > 2 }
    IN  IF candidates # {} THEN candidates ELSE 2..(Len(words) - 1)

\* The fallback step is taken for the repaired text t.
FallsBack(t) == CountOf(t, "*") = 0 /\ Len(Split(t, " ")) > 2

\* What generateAutopsyScript returns for the response text.
generateAutopsyScript(text, language, ending, targetIndex) ==
    LET t == Repaired(text, language, ending)
        words == Split(t, " ")
    IN  IF FallsBack(t)
        THEN JoinWords([words EXCEPT ![targetIndex] = HighlightWord(@)], " ")
        ELSE TrimText(t)

MaxGenWords == 3

GenWords ==
    { <<"n", "o">>, <<"b", "a", "d">>, <<"b", "a", "d", ".">>,
      <<"(", "b", "a", "d", ")">>, <<"i", "'", "m">>, <<"!", "!", "!">>,
      <<"*", "b", "a", "d", "*">>, <<"*", "b", "a", "d">>, <<"b", "b", "han">> }

ResponseTexts ==
    { JoinWords(q, " ") : q \in UNION { [1..k -> GenWords] : k \in 1..MaxGenWords } }

GenerateCall ==
    /\ Idle
    /\ \E text \in ResponseTexts, language \in {"Korean", "English"} :
         \E ending \in IF language = "Korean" /\ EndsDangling(BalanceMarkers(text))
                       THEN DOMAIN NounEndings ELSE {1} :
           \E t \in { Repaired(text, language, ending) } :
             \E targetIndex \in IF FallsBack(t) THEN Targets(Split(t, " ")) ELSE {0} :
               \E out \in { generateAutopsyScript(text, language, ending,
                                                  targetIndex) } :
                 call' = [fn |-> "generateAutopsyScript", text |-> text,
                          language |-> language, targetIndex |-> targetIndex,
                          out |-> out,
                          rawWords |-> SplitWords(out, <<>>),
                          words |-> allWords(out)]
    /\ layout' = <<>>
    /\ UNCHANGED <<playerVars, gateVars, appVars>>

\* ------------------------------------------- ambient timing of a script
ambientDelay_CommaAsStop(cleanText) ==
    IF endsWith(cleanText, ".") \/ endsWith(cleanText, "!")
       \/ endsWith(cleanText, "?") \/ endsWith(cleanText, ",")
    THEN RatMul(Rat(defaultTypeSpeed), <<5, 2>>)
    ELSE Rat(defaultTypeSpeed)

\* delay of one word in the forEach of the ambient branch.
ambientDelay(cleanText) ==
    IF endsWith(cleanText, ".") \/ endsWith(cleanText, "!")
       \/ endsWith(cleanText, "?")
    THEN RatMul(Rat(defaultTypeSpeed), <<5, 2>>)
    ELSE IF endsWith(cleanText, ",")
    THEN RatMul(Rat(defaultTypeSpeed), <<9, 5>>)
    ELSE Rat(defaultTypeSpeed)

RECURSIVE summaryWordTimings(_, _, _)
\* The forEach over allWords from word k on, cumulativeTime as it stands.
summaryWordTimings(words, k, cumulativeTime) ==
    IF k > Len(words) THEN <<>>
    ELSE <<cumulativeTime>>
         \o summaryWordTimings(words, k + 1,
                RatAdd(cumulativeTime, ambientDelay(words[k].cleanText)))

holdEndDuration(isPreviewMode) == IF isPreviewMode THEN PreviewHold ELSE ExportHold

\* The ambient branch of animateScript: the words' timing and totalDuration.
AmbientTiming(script, isPreviewMode) ==
    LET words == allWords(script)
        timings == summaryWordTimings(words, 1, Rat(0))
        animationFinishTime ==
            IF Len(words) > 0
            THEN RatAdd(timings[Len(words)], Rat(FADE_DURATION))
            ELSE Rat(0)
    IN  [words |-> words,
         layout |-> [i \in DOMAIN words |->
                        [absoluteStartTime |-> timings[i],
                         duration |-> Rat(defaultTypeSpeed)]],
         totalDuration |->
             RatAdd(animationFinishTime, Rat(holdEndDuration(isPreviewMode)))]

AmbientScriptCall ==
    /\ Idle
    /\ \E script \in StyledScripts, isPreviewMode \in BOOLEAN :
         call' = [fn |-> "ambientTiming", script |-> script,
                  isPreviewMode |-> isPreviewMode,
                  out |-> AmbientTiming(script, isPreviewMode)]
    /\ layout' = <<>>
    /\ UNCHANGED <<playerVars, gateVars, appVars>>

FnNext ==
    \/ TimeScaleCall
    \/ SegmentsFrame
    \/ PagedTimeline
    \/ AmbientTimeline
    \/ LayoutCall
    \/ PaintCall
    \/ ParseCall
    \/ SplitCall
    \/ FitCall
    \/ AmbientScriptCall
    \/ GenerateCall
    \/ AnimateWordCall
    \/ Return

FnInit == PlayerIdle /\ GateIdle /\ FnIdle /\ AppIdle

FnSpec == FnInit /\ [][FnNext]_vars

\* ==================================================================
\* The application and its input form
\* ==================================================================
\* A text is kept by what trim() and a truth test see of it: "empty" is '',
\* "blank" is whitespace only, "text" has a character that is not whitespace.
Texts == {"empty", "blank", "text"}

\* text.trim()
trim(t) == IF t = "blank" THEN "empty" ELSE t

\* A string as a condition: only '' is falsy.
Truthy(t) == t # "empty"

\* --------------------------------------------------------------- InputForm
FormIdle == ~form.isTranscribing /\ ~form.isRecording

\* The textarea's onChange; the textarea is disabled in literal mode.
TypeConcern ==
    /\ appState = "IDLE"
    /\ FormIdle /\ form.mode = "summarize"
    /\ \E t \in Texts : form' = [form EXCEPT !.concern = t, !.textFrom = "typed"]
    /\ form' # form
    /\ UNCHANGED <<appState, generatedScript, currentMode, audioUrlForPlayer,
                   videoUrl, error, lastStart, exportPc, exportScript,
                   playerVars, gateVars, fnVars>>

SetMode ==
    /\ appState = "IDLE"
    /\ \E m \in {"summarize", "literal"} : form' = [form EXCEPT !.mode = m]
    /\ form' # form
    /\ UNCHANGED <<appState, generatedScript, currentMode, audioUrlForPlayer,
                   videoUrl, error, lastStart, exportPc, exportScript,
                   playerVars, gateVars, fnVars>>

\* processAudioBlob up to its await: the blob is kept at once and the
\* segments are cleared; concern stays. textFrom and segmentsFrom tell where
\* concern and transcriptSegments come from: typed, the transcription of
\* the blob in audioBlobRef ("current") or that of an earlier blob.
processAudioBlob(f) ==
    [f EXCEPT !.isTranscribing = TRUE, !.audioBlob = TRUE, !.isRecording = FALSE,
              !.textFrom = IF @ = "current" THEN "earlier" ELSE @,
              !.segmentsFrom = "undefined"]

\* An audio file is chosen, or the microphone recording is stopped.
AudioGiven ==
    /\ appState = "IDLE"
    /\ ~form.isTranscribing
    /\ form' = processAudioBlob(form)
    /\ UNCHANGED <<appState, generatedScript, currentMode, audioUrlForPlayer,
                   videoUrl, error, lastStart, exportPc, exportScript,
                   playerVars, gateVars, fnVars>>

StartRecording ==
    /\ appState = "IDLE"
    /\ FormIdle
    /\ form' = [form EXCEPT !.isRecording = TRUE]
    /\ UNCHANGED <<appState, generatedScript, currentMode, audioUrlForPlayer,
                   videoUrl, error, lastStart, exportPc, exportScript,
                   playerVars, gateVars, fnVars>>

\* transcribeAudio settles: with a transcript (of any text), or by throwing.
TranscriptionSettles ==
    /\ appState = "IDLE"
    /\ form.isTranscribing
    /\ \/ \E t \in Texts :
            form' = [form EXCEPT !.isTranscribing = FALSE, !.concern = t,
                                 !.textFrom = "current",
                                 !.segmentsFrom = "current"]
       \/ form' = [form EXCEPT !.isTranscribing = FALSE]
    /\ UNCHANGED <<appState, generatedScript, currentMode, audioUrlForPlayer,
                   videoUrl, error, lastStart, exportPc, exportScript,
                   playerVars, gateVars, fnVars>>

\* The condition of handleSubmit under which onStart is called.
canSubmit(f) ==
    /\ FormIdle
    /\ \/ f.mode = "summarize" /\ Truthy(trim(f.concern))
       \/ f.mode = "literal" /\ Truthy(trim(f.concern)) /\ f.audioBlob

\* --------------------------------------------------------------------- App
\* handleSubmit and handleAutopsyStart up to its first await: literal mode
\* has none and ends in PREVIEW in the same step.
Submit ==
    /\ appState = "IDLE"
    /\ canSubmit(form)
    /\ lastStart' = [script |-> trim(form.concern), mode |-> form.mode,
                     audioBlob |-> form.audioBlob,
                     textFrom |-> form.textFrom,
                     segmentsFrom |-> form.segmentsFrom,
                     busy |-> form.isTranscribing \/ form.isRecording]
    /\ currentMode' = form.mode
    /\ videoUrl' = FALSE
    /\ error' = "none"
    /\ form' = NewForm
    /\ exportPc' = "none"
    /\ exportScript' = "none"
    /\ IF form.mode = "summarize"
       THEN /\ appState' = "ANALYZING"
            /\ generatedScript' = "empty"
            /\ audioUrlForPlayer' = FALSE
       ELSE /\ appState' = "PREVIEW"
            /\ generatedScript' = trim(form.concern)
            /\ audioUrlForPlayer' = form.audioBlob
    /\ UNCHANGED <<playerVars, gateVars, fnVars>>

\* generateAutopsyScript settles: with a script, or by throwing.
AnalysisSettles ==
    /\ appState = "ANALYZING"
    /\ \/ /\ generatedScript' = "text"
          /\ appState' = "PREVIEW"
          /\ UNCHANGED error
       \/ /\ error' = "analysis"
          /\ appState' = "IDLE"
          /\ UNCHANGED generatedScript
    /\ UNCHANGED <<currentMode, audioUrlForPlayer, videoUrl, lastStart, form,
                   exportPc, exportScript, playerVars, gateVars, fnVars>>

\* The script textarea of the preview screen.
EditScript ==
    /\ appState = "PREVIEW"
    /\ \E t \in Texts : generatedScript' = t
    /\ generatedScript' # generatedScript
    /\ UNCHANGED <<appState, currentMode, audioUrlForPlayer, videoUrl, error,
                   lastStart, form, exportPc, exportScript,
                   playerVars, gateVars, fnVars>>

\* handleGenerateVideo and the commit after it: the GENERATING branch mounts
\* the export player only for a truthy generatedScript.
GenerateVideo ==
    /\ appState = "PREVIEW"
    /\ appState' = "GENERATING"
    /\ IF Truthy(generatedScript)
       THEN exportPc' = "setup" /\ exportScript' = generatedScript
       ELSE UNCHANGED <<exportPc, exportScript>>
    /\ UNCHANGED <<generatedScript, currentMode, audioUrlForPlayer, videoUrl,
                   error, lastStart, form, playerVars, gateVars, fnVars>>

handleReset ==
    /\ appState \in {"PREVIEW", "COMPLETE"}
    /\ appState' = "IDLE"
    /\ generatedScript' = "empty"
    /\ error' = "none"
    /\ videoUrl' = FALSE
    /\ audioUrlForPlayer' = FALSE
    /\ form' = NewForm
    /\ UNCHANGED <<currentMode, lastStart, exportPc, exportScript,
                   playerVars, gateVars, fnVars>>

handleGenerationError_StaysGenerating(msg) ==
    /\ error' = msg
    /\ UNCHANGED appState
    /\ UNCHANGED form

\* handleGenerationError; IDLE mounts a new InputForm.
handleGenerationError(msg) ==
    /\ error' = msg
    /\ appState' = "IDLE"
    /\ form' = NewForm

handleVideoGenerationComplete ==
    /\ videoUrl' = TRUE
    /\ appState' = "COMPLETE"

\* ----------------------------------------------- the export player of App
\* setupAndStartRecorder throws into its outer catch (no capture method, no
\* recorder for any encoding): onError, before any recorder exists.
ExportSetupFails ==
    /\ exportPc = "setup"
    /\ exportPc' = "failed"
    /\ handleGenerationError("capture")
    /\ UNCHANGED <<generatedScript, currentMode, audioUrlForPlayer, videoUrl,
                   lastStart, exportScript, playerVars, gateVars, fnVars>>

\* The recorder is started and the render loop runs.
ExportStarts ==
    /\ exportPc = "setup"
    /\ exportPc' = "recording"
    /\ UNCHANGED <<appState, generatedScript, currentMode, audioUrlForPlayer,
                   videoUrl, error, lastStart, form, exportScript,
                   playerVars, gateVars, fnVars>>

\* The render loop reaches totalDuration and stops the recorder.
ExportLoopEnds ==
    /\ exportPc = "recording"
    /\ exportPc' = "stopping"
    /\ UNCHANGED <<appState, generatedScript, currentMode, audioUrlForPlayer,
                   videoUrl, error, lastStart, form, exportScript,
                   playerVars, gateVars, fnVars>>

\* onstop: onComplete for a blob that is not empty, else onError.
ExportStopEvent ==
    /\ exportPc = "stopping"
    /\ \E d \in DataSizes :
         IF OnStopOutcome(d) = "complete"
         THEN /\ exportPc' = "done"
              /\ handleVideoGenerationComplete
              /\ UNCHANGED <<error, form>>
         ELSE /\ exportPc' = "failed"
              /\ handleGenerationError("finalize")
              /\ UNCHANGED videoUrl
    /\ UNCHANGED <<generatedScript, currentMode, audioUrlForPlayer,
                   lastStart, exportScript, playerVars, gateVars, fnVars>>

AppNext ==
    \/ TypeConcern
    \/ SetMode
    \/ AudioGiven
    \/ StartRecording
    \/ TranscriptionSettles
    \/ Submit
    \/ AnalysisSettles
    \/ EditScript
    \/ GenerateVideo
    \/ handleReset
    \/ ExportSetupFails
    \/ ExportStarts
    \/ ExportLoopEnds
    \/ ExportStopEvent

AppInit == PlayerIdle /\ GateIdle /\ FnIdle /\ AppIdle

AppSpec == AppInit /\ [][AppNext]_vars

\* ==================================================================
\* The session lifecycle under fair scheduling
\* ==================================================================
\* The browser keeps delivering animation frames and fires the stop event
\* of a stopped recorder; in a browser that supports capture and every
\* listed encoding.
LiveInit == PlayerIdle /\ GateIdle /\ FnIdle /\ AppIdle

LiveSpec ==
    /\ LiveInit
    /\ [][Next]_vars
    /\ WF_vars(AnimationFrame)
    /\ \A r \in Sessions : WF_vars(RecorderStopEvent(r))

\* The application under fair scheduling: a mounted export player is set up
\* (or fails to), its render loop reaches the end of the timeline and the
\* stop event of its recorder fires.
AppLiveSpec ==
    /\ AppInit
    /\ [][AppNext]_vars
    /\ WF_vars(ExportSetupFails \/ ExportStarts)
    /\ WF_vars(ExportLoopEnds)
    /\ WF_vars(ExportStopEvent)

\* ==================================================================
\* Properties
\* ==================================================================
StopEventFired(r) == stopCalls[r] > 0 /\ ~stopEventPending[r]

Recording == { r \in Sessions : recState[r] = "recording" }

\* C1: stop() is invoked at most once on every recorder, whatever the
\* interleaving of frames and teardowns, and a render loop that has seen
\* elapsed >= totalDuration has no further frame queued.
C1_StopAtMostOnce ==
    \A r \in Sessions :
        /\ stopCalls[r] <= 1
        /\ reachedEnd[r] => ~InQueue(frameQueue, r)

\* A recorder stopped exactly once although both its render loop ran to the
\* end and its session was torn down.
C1_Witness ==
    \E r \in Sessions : stopCalls[r] = 1 /\ reachedEnd[r] /\ tornDown[r]

\* C2: onComplete is called only for a session whose render loop ran until
\* elapsed >= totalDuration.
C2_CompleteOnlyAfterEnd ==
    \A s \in Sessions : nComplete[s] > 0 => reachedEnd[s]

\* C3: after its teardown a session runs no frame, starts no recorder and
\* stops no recorder, it writes none of the refs of the session that replaced
\* it, and at most one frame loop and one recording recorder are live.
C3_TeardownIsComplete ==
    /\ lateActs \cap {"frame", "requestFrame", "recorderStart", "recorderStop"} = {}
    /\ foreignActs = {}
    /\ Len(frameQueue) <= 1
    /\ Cardinality(Recording) <= 1

\* A session failed unrecoverably: its setup threw into the outer catch, or
\* its recorder stopped with an empty artifact.
SessionFailed(s) ==
    \/ pc[s] = "failed"
    \/ StopEventFired(s) /\ SumSeq(chunks[s]) = 0

\* C4: a session that failed unrecoverably has called onError exactly once
\* and onComplete never; no session calls onError twice.
C4_ExactlyOneError ==
    \A s \in Sessions :
        /\ nError[s] <= 1
        /\ SessionFailed(s) => (nError[s] = 1 /\ nComplete[s] = 0)
        /\ nError[s] = 1 => nComplete[s] = 0

\* A setup failure and an empty artifact, each reported once.
C4_Witness ==
    \E s, r \in Sessions :
        /\ pc[s] = "failed" /\ nError[s] = 1
        /\ pc[r] = "started" /\ StopEventFired(r) /\ nError[r] = 1

\* C5: once a session has called onError its recorder is not recording and
\* the audio context it created is closed.
C5_ErrorLeavesNothingRunning ==
    \A s \in Sessions :
        nError[s] > 0 => (recState[s] # "recording" /\ ctx[s].state = "closed")

\* C6: a recorder that stopped with zero bytes of chunks has called onError
\* and not onComplete; onComplete only ever received the non-empty blob built
\* from the recorded chunks.
C6_EmptyArtifactFails ==
    \A r \in Sessions :
        /\ (StopEventFired(r) /\ SumSeq(chunks[r]) = 0)
              => (nError[r] = 1 /\ nComplete[r] = 0)
        /\ nComplete[r] > 0
              => (completeSize[r] > 0 /\ completeSize[r] = SumSeq(chunks[r]))

\* A recorder whose stop event fired with no chunk kept.
C6_Witness ==
    \E r \in Sessions :
        StopEventFired(r) /\ chunks[r] = <<>> /\ nError[r] = 1

SetupDone(s) == pc[s] \in {"failed", "started"}

\* C7 (as claimed): with no encoding of the preference list supported, a
\* session that went through setup has failed with an onError message, has
\* no recorder and never completes.
C7_NoListedEncodingFails ==
    \A s \in Sessions :
        (supported \cap AllListed = {} /\ SetupDone(s))
            => /\ pc[s] = "failed"
               /\ nError[s] = 1 /\ errorMsg[s] # "none"
               /\ recState[s] = "none"
               /\ nComplete[s] = 0

\* C7 (amended): with no encoding supported at all, so that the recorder
\* cannot be constructed without options either, a session that went through
\* setup has failed with an onError message, has no recorder and never
\* completes.
C7_NoEncodingFails ==
    \A s \in Sessions :
        (supported = {} /\ SetupDone(s))
            => /\ pc[s] = "failed"
               /\ nError[s] = 1 /\ errorMsg[s] # "none"
               /\ recState[s] = "none"
               /\ nComplete[s] = 0

C7_Witness ==
    \E s \in Sessions :
        supported = {} /\ captureOk /\ pc[s] = "failed" /\ nError[s] = 1

\* C8: a recorder of a session with a transparent background records with an
\* alpha-capable encoding.
C8_TransparentUsesAlpha ==
    \A s \in Sessions :
        (props[s].bg = "transparent" /\ recState[s] # "none")
            => recMime[s] \in AlphaCapable

Clamp(lo, hi, x) == Max(lo, Min(hi, x))

\* C9: every value passed to onProgress is in 0..100 and equals
\* round(100 * elapsed / totalDuration) clamped to 0..100 (0 at session start).
C9_ProgressInRange ==
    \A i \in 1..Len(progressCalls) :
        LET c == progressCalls[i] IN
        /\ c.val \in 0..100
        /\ c.kind = "start" => c.val = 0
        /\ c.kind # "start"
              => c.val = Clamp(0, 100, MathRound(100 * c.elapsed, c.total))

\* C10: every frame subtracts from its clock reading a start offset read from
\* the same clock.
C10_OneClock ==
    \A i \in 1..Len(lastFrames) : lastFrames[i].offset = lastFrames[i].clock

\* C11: a session whose audio load failed is not aborted for it (with a
\* working capture stream and recorder its setup goes on to record), and
\* every frame of it takes its elapsed time from the wall clock, as
\* now - loopStartTime.
C11_AudioFailureFallsBack ==
    \A s \in Sessions :
        audioFailed[s] =>
            /\ (captureOk /\ RecorderMime(supported) # "fail")
                  => (pc[s] = "started" /\ recState[s] # "none")
            /\ \A i \in 1..Len(progressCalls) :
                  (progressCalls[i].s = s /\ progressCalls[i].kind # "start")
                      => progressCalls[i].elapsed = now - loopStart[s]

ConfiguredReady == ~NeedsLoading(bgConfig) \/ loadedCur

\* C12: once the load of the configured background asset has failed and no
\* render is pending, a session is live: the failure does not keep the
\* session from starting.
C12_BgFailureDoesNotBlock ==
    (bgMounted /\ bgConfig \in loadFailed /\ bgState = bgAssetsLoaded)
        => sessionBg = bgConfig

\* C13: the gate is open, a session is live and a frame is painted only
\* while the configured background is ready (a colour, transparency, or an
\* asset whose own load event has fired since it was configured).
C13_GateClosedUntilLoaded ==
    /\ bgState => ConfiguredReady
    /\ sessionBg # "none" => ConfiguredReady
    /\ painted # "none" => ConfiguredReady

C15_SegmentsTotalDuration ==
    call.fn = "segments" =>
        LET last == call.segs[Len(call.segs)].end
            scaledEnd == RatMul(Rat(last), timeScale(call.aud, last))
            tail == RatAdd(scaledEnd, Rat(1000))
            t == Rat(call.t)
        IN  /\ call.pages[Len(call.pages)].end = scaledEnd
            /\ call.totalDuration = RatMax(tail, Rat(call.aud))
            /\ RatLe(Rat(call.aud), call.totalDuration)
            /\ RatLe(tail, call.totalDuration)
            /\ (RatLt(t, Rat(call.aud)) \/ RatLt(t, tail)) => call.requestsFrame
            /\ call.requestsFrame <=> RatLt(t, call.totalDuration)

\* A frame past the tail of the last segment that goes on because the audio
\* has not ended.
C15_Witness ==
    /\ call.fn = "segments"
    /\ RatLe(RatAdd(call.pages[Len(call.pages)].end, Rat(1000)), Rat(call.t))
    /\ call.t < call.aud
    /\ call.requestsFrame

NonDecreasing(words) ==
    \A i, j \in DOMAIN words :
        i < j => RatLe(words[i].absoluteStartTime, words[j].absoluteStartTime)

\* C16: in timestamped, paged and ambient mode the absoluteStartTime of the
\* words of a page / segment is non-decreasing in source word order.
C16_MonotonicScheduling ==
    call.fn \in {"segments", "paged", "ambient"} =>
        \A k \in 1..Len(call.pages) : NonDecreasing(call.pages[k].layout)

\* A drift-corrected segment of two words, the second starting later.
C16_Witness ==
    /\ call.fn = "segments"
    /\ timeScale(call.aud, call.segs[Len(call.segs)].end) # Rat(1)
    /\ \E k \in 1..Len(call.pages) :
         /\ Len(call.pages[k].layout) = 2
         /\ RatLt(call.pages[k].layout[1].absoluteStartTime,
                  call.pages[k].layout[2].absoluteStartTime)

Contains(pg, t) == RatLe(pg.start, t) /\ RatLt(t, pg.end)

\* C17: the active page at time t is the segment whose [start, end) contains
\* t; with no such segment it is the first segment before the first start,
\* the last segment from the last end on, and else the segment with the
\* latest end at or before t.
C17_ActivePageLookup ==
    call.fn = "segments" =>
        LET pages == call.pages
            t == Rat(call.t)
            a == call.active
        IN  /\ a \in 1..Len(pages)
            /\ IF \E k \in 1..Len(pages) : Contains(pages[k], t)
               THEN Contains(pages[a], t)
               ELSE IF RatLt(t, pages[1].start) THEN a = 1
               ELSE IF RatLe(pages[Len(pages)].end, t) THEN a = Len(pages)
               ELSE /\ RatLe(pages[a].end, t)
                    /\ \A k \in 1..Len(pages) :
                          RatLe(pages[k].end, t) => RatLe(pages[k].end, pages[a].end)

\* A time in a gap with two segments before it: the second one is active.
C17_Witness ==
    /\ call.fn = "segments"
    /\ Len(call.pages) = 3
    /\ ~ \E k \in 1..3 : Contains(call.pages[k], Rat(call.t))
    /\ RatLe(call.pages[2].end, Rat(call.t))
    /\ RatLt(Rat(call.t), call.pages[3].start)
    /\ call.active = 2

\* C18: a painted word with start time s and duration d is active exactly
\* when d > 0 and s <= elapsed < s + d; a word not yet started is not painted
\* at all.
C18_ActiveWindow ==
    call.fn = "renderPage" =>
        \A i \in DOMAIN layout.words :
            LET s == layout.words[i].absoluteStartTime
                d == layout.words[i].duration
                t == Rat(call.t)
                inWindow == RatLt(Rat(0), d) /\ RatLe(s, t) /\ RatLt(t, RatAdd(s, d))
            IN  /\ call.drawn[i].painted <=> RatLe(s, t)
                /\ inWindow => call.drawn[i].painted
                /\ call.drawn[i].painted => (call.drawn[i].isActive <=> inWindow)

\* The word with s = 1000 and d = 500 painted at 1500: not active.
C18_Witness ==
    /\ call.fn = "renderPage"
    /\ call.t = 1500
    /\ \E i \in DOMAIN layout.words :
         /\ layout.words[i].absoluteStartTime = Rat(1000)
         /\ layout.words[i].duration = Rat(500)
         /\ call.drawn[i].painted /\ ~call.drawn[i].isActive

\* The layout as calculateLayoutForWords returned it, before any frame.
Unpainted(words) == [i \in DOMAIN words |-> LayoutWord(words[i])]

\* C19 (as claimed): after a frame at elapsed time t the alpha, scale and
\* offset of every word are those the same frame leaves on a layout no frame
\* has painted yet.
C19_IdempotentFields ==
    call.fn = "renderPage" =>
        layout.words =
            renderPage(Unpainted(layout.words), Rat(call.t), layout.animation).words

\* C19 (amended): a frame at elapsed time t draws the same words, with the
\* same alpha, scale and offset, as the same frame on a layout no frame has
\* painted yet, and leaves those values on every word it draws.
C19_IdempotentPainting ==
    call.fn = "renderPage" =>
        LET fresh == renderPage(Unpainted(layout.words), Rat(call.t),
                                layout.animation)
        IN  \A i \in DOMAIN layout.words :
                /\ call.drawn[i] = fresh.drawn[i]
                /\ call.drawn[i].painted => layout.words[i] = fresh.words[i]

\* A frame that skips a word an earlier, later-timed frame has drawn: the
\* word keeps that frame's alpha.
C19_Witness ==
    /\ call.fn = "renderPage"
    /\ \E i \in DOMAIN layout.words :
         /\ ~call.drawn[i].painted
         /\ layout.words[i].alpha # Rat(0)

RECURSIVE SpanTexts(_)
SpanTexts(spans) ==
    IF spans = <<>> THEN <<>> ELSE Head(spans).text \o SpanTexts(Tail(spans))

\* C20: the texts of the spans of a parsed word, concatenated in order, are
\* its cleanText.
C20_SpanPartition ==
    call.fn = "parseStyledWord" =>
        /\ Len(call.out.spans) >= 1
        /\ SpanTexts(call.out.spans) = call.out.cleanText

\* An emphasized word made of two style directives.
C20_Witness ==
    /\ call.fn = "parseStyledWord"
    /\ call.out.isHighlight
    /\ Len(call.out.spans) = 2
    /\ call.out.spans[1].style # NoStyle
    /\ call.out.spans[2].style # NoStyle
    /\ Len(call.out.cleanText) = 3

\* An emphasized word followed by one punctuation character: *text*p.
Punctuation == {";", ".", ",", "!", "?"}
EmphasizedThenPunctuation(w) ==
    /\ Len(w) >= 4
    /\ w[1] = "*"
    /\ w[Len(w) - 1] = "*"
    /\ w[Len(w)] \in Punctuation

\* C21: a token written *text* followed by punctuation (*busy*; and
\* *irrelevant*. of the example script) is parsed with isHighlight = true,
\* its two markers stripped and the punctuation kept in cleanText.
C21_PunctuatedHighlight ==
    call.fn = "allWords" =>
        \A i \in DOMAIN call.rawWords :
            LET w == call.rawWords[i]
            IN  EmphasizedThenPunctuation(w) =>
                    /\ call.out[i].isHighlight
                    /\ call.out[i].cleanText =
                           Append(SubSeq(w, 2, Len(w) - 2), w[Len(w)])

\* C22: on a canvas of at least 100x100 the layout of a non-empty page is
\* no taller than the canvas height minus the padding, or the font size has
\* come down to its floor, for every size class and font family.
C22_LayoutFits ==
    call.fn = "layoutFit" =>
        \/ RatLe(call.fit.totalHeight, RatSub(Rat(call.h), call.fit.padding))
        \/ RatLe(call.fit.finalFontSize, Rat(MinFontSize))

Previews == { s \in Sessions : pc[s] = "preview" }

\* A frame callback of session s ran in the last step.
FrameRan(s) == \E i \in 1..Len(lastFrames) : lastFrames[i].s = s

\* C23: a preview session never has a recorder and never calls onComplete
\* or onError; while it is live a frame of it is always requested; after its
\* teardown no frame of it runs or stays requested, and the audio context in
\* audioContextRef at its teardown is closed.
C23_PreviewLoops ==
    \A s \in Previews :
        /\ recState[s] = "none" /\ stopCalls[s] = 0
        /\ nComplete[s] = 0 /\ nError[s] = 0
        /\ ~tornDown[s] => InQueue(frameQueue, s)
        /\ tornDown[s] => ~FrameRan(s) /\ ~InQueue(frameQueue, s)
        /\ tornDown[s] => \A r \in 1..s : ctx[r].state \in {"none", "closed"}

\* An export player is mounted and its session has started.
ExportSession == exportPc # "none"

\* C24: unusable input is rejected before a session starts: no analysis or
\* preview is started from an empty or whitespace-only script or, in literal
\* mode, without a recording; no export session runs on such a script, a
\* script edited in the preview screen included; and a rejected request does
\* not leave the application in GENERATING.
C24_InputRejected ==
    /\ lastStart.mode # "none" =>
           /\ lastStart.script = "text"
           /\ lastStart.mode = "literal" => lastStart.audioBlob
    /\ ExportSession => exportScript = "text"
    /\ appState = "GENERATING" => generatedScript = "text"

\* C25: an export session that reported an error through onError leaves the
\* application in IDLE with the error recorded and no video; nothing that
\* session does later moves the application to COMPLETE.
C25_ErrorReturnsToIdle ==
    exportPc = "failed" =>
        /\ appState = "IDLE"
        /\ error \in {"capture", "finalize"}
        /\ ~videoUrl

\* A finalization error after a recording that ran to its end.
C25_Witness ==
    exportPc = "failed" /\ error = "finalize" /\ appState = "IDLE"

\* The pacing as stated: 250 ms, times 2.5 after '.', '!' or '?', times 1.8
\* after a comma.
PacedDelay(text) ==
    IF text[Len(text)] \in {".", "!", "?"} THEN Rat(625)
    ELSE IF text[Len(text)] = "," THEN Rat(450)
    ELSE Rat(250)

RECURSIVE PacedStart(_, _)
PacedStart(words, i) ==
    IF i = 1 THEN Rat(0)
    ELSE RatAdd(PacedStart(words, i - 1), PacedDelay(words[i - 1].cleanText))

\* C26: in ambient mode word i starts at the sum of the delays of the words
\* before it, and totalDuration is the last word's start + 80 ms of fade +
\* the hold (2000 ms in preview, 5000 ms in export).
C26_AmbientPacing ==
    (call.fn = "ambientTiming" /\ call.out.words # <<>>) =>
        LET words == call.out.words
            n == Len(words)
        IN  /\ \A i \in 1..n :
                  call.out.layout[i].absoluteStartTime = PacedStart(words, i)
            /\ call.out.totalDuration =
                   RatAdd(PacedStart(words, n),
                          Rat(80 + (IF call.isPreviewMode THEN 2000 ELSE 5000)))

\* An export of a script with a comma pause before its last word.
C26_Witness ==
    /\ call.fn = "ambientTiming"
    /\ ~call.isPreviewMode
    /\ Len(call.out.words) = 2
    /\ call.out.layout[2].absoluteStartTime = Rat(450)
    /\ call.out.totalDuration = Rat(5530)

\* C27: paged mode cuts the words, in order, into pages of 5 (the last may
\* be shorter); a page lasts totalDuration / pageCount, totalDuration being
\* the audio duration if known and else max(5000, 500 per word); word i of
\* page k starts at k * pageDuration + i * (0.9 * pageDuration / wordsOnPage),
\* inside the first 90% of the page's slot, and pageIndex has not passed k.
C27_PagedSchedule ==
    (call.fn = "paged" /\ call.n > 0) =>
        LET count == Len(call.chunks)
            total == IF call.aud # 0 THEN call.aud
                     ELSE Max(5000, call.n * 500)
            slot == <<total, count>>
        IN  /\ Flatten(call.chunks) = [i \in 1..call.n |-> i]
            /\ \A k \in 1..count :
                  /\ k < count => Len(call.chunks[k]) = 5
                  /\ Len(call.chunks[k]) \in 1..5
                  /\ Len(call.pages[k].layout) = Len(call.chunks[k])
            /\ call.totalDuration = Rat(total)
            /\ RatLe(call.pageDuration, slot) /\ RatLe(slot, call.pageDuration)
            /\ \A k \in 1..count : \A i \in 1..Len(call.chunks[k]) :
                  LET start == call.pages[k].layout[i].absoluteStartTime
                      m == Len(call.chunks[k])
                      pageStart == RatMul(Rat(k - 1), slot)
                      claimed == RatAdd(pageStart,
                                     RatMul(<<9 * (i - 1), 10 * m>>, slot))
                  IN  /\ RatLe(start, claimed) /\ RatLe(claimed, start)
                      /\ RatLe(pageStart, start)
                      /\ RatLt(RatSub(start, pageStart), RatMul(<<9, 10>>, slot))
                      /\ pageIndex(start, call.pageDuration, count) <= k - 1

\* Eleven words without audio: three pages of 5, 5 and 1 words.
C27_Witness ==
    /\ call.fn = "paged"
    /\ call.n = 11
    /\ call.aud = 0
    /\ Len(call.chunks) = 3
    /\ call.pages[2].layout[5].absoluteStartTime = <<9460, 3>>

\* The export session s has finished: its loop saw the end and requests no
\* frame, its recorder was stopped once and the stop event made exactly one
\* of the two callbacks.
Finished(s) ==
    /\ reachedEnd[s]
    /\ ~InQueue(frameQueue, s)
    /\ recState[s] = "inactive" /\ stopCalls[s] = 1 /\ ~stopEventPending[s]
    /\ nComplete[s] + nError[s] = 1

\* The clock of the model has run out while the loop of s still requests
\* frames.
AwaitsFrame(s) == ticks = MaxTicks /\ InQueue(frameQueue, s)

\* C28: an export session whose setup succeeded and that is not torn down
\* finishes, as long as frames are delivered.
C28_ExportFinishes ==
    \A s \in Sessions :
        (pc[s] = "started" /\ ~tornDown[s])
            ~> (tornDown[s] \/ Finished(s) \/ AwaitsFrame(s))

\* C29: in timestamped mode a segment of n > 0 words with scaled bounds
\* [start, end] gives word i (from 0) the start start + i * (end - start) / n
\* and the duration (end - start) / n: every word starts in [start, end) and
\* the last word's window ends at end; a segment without words gives none.
C29_SegmentWordTiming ==
    call.fn = "segments" =>
        \A k \in 1..Len(call.segs) :
            LET pg == call.pages[k]
                n == call.segs[k].n
                span == RatSub(pg.end, pg.start)
            IN  /\ Len(pg.layout) = n
                /\ \A i \in 1..n :
                      LET word == pg.layout[i]
                      IN  /\ word.absoluteStartTime =
                                 RatAdd(pg.start, RatMul(<<i - 1, n>>, span))
                          /\ word.duration = RatMul(<<1, n>>, span)
                          /\ RatLe(pg.start, word.absoluteStartTime)
                          /\ RatLt(word.absoluteStartTime, pg.end)
                /\ n > 0 =>
                      RatAdd(pg.layout[n].absoluteStartTime,
                             pg.layout[n].duration) = pg.end

\* A drift-corrected transcript with a two-word segment and a segment
\* without words.
C29_Witness ==
    /\ call.fn = "segments"
    /\ call.pages[Len(call.pages)].end # Rat(call.segs[Len(call.segs)].end)
    /\ \E k \in 1..Len(call.segs) :
          /\ call.segs[k].n = 2
          /\ call.pages[k].layout[2].absoluteStartTime
                 = RatMul(<<1, 2>>, RatAdd(call.pages[k].start, call.pages[k].end))
    /\ \E k \in 1..Len(call.segs) : call.segs[k].n = 0 /\ call.pages[k].layout = <<>>

\* The layouts of the pages a timeline call has built.
PagesOf(c) ==
    IF c.fn \in {"segments", "paged", "ambient"}
    THEN [k \in DOMAIN c.pages |-> c.pages[k].layout]
    ELSE IF c.fn = "ambientTiming" THEN <<c.out.layout>>
    ELSE <<>>

\* The active windows [start, start + duration) of two words do not meet.
Disjoint(a, b) ==
    \/ RatLe(RatAdd(a.absoluteStartTime, a.duration), b.absoluteStartTime)
    \/ RatLe(RatAdd(b.absoluteStartTime, b.duration), a.absoluteStartTime)

\* C30: the active windows of the words of one page are pairwise disjoint
\* in timestamped, paged and ambient mode, and a painted frame shows at most
\* one active word.
C30_OneActiveWord ==
    /\ \A k \in DOMAIN PagesOf(call) :
          \A i, j \in DOMAIN PagesOf(call)[k] :
              i # j => Disjoint(PagesOf(call)[k][i], PagesOf(call)[k][j])
    /\ call.fn = "renderPage" =>
          Cardinality({ i \in DOMAIN call.drawn :
                          call.drawn[i].painted /\ call.drawn[i].isActive }) <= 1

\* An ambient page of three words whose second window starts where the
\* first ends.
C30_Witness ==
    /\ call.fn = "ambient"
    /\ Len(call.script) = 3
    /\ RatAdd(call.pages[1].layout[1].absoluteStartTime,
              call.pages[1].layout[1].duration)
           = call.pages[1].layout[2].absoluteStartTime

\* ------------------------------------------------------ layout of a page
\* The line height ratio and the limits calculateLayoutForWords works with
\* in the call the state records.
FitRatio ==
    LET c == FontConfig(call.fontSize, call.fontFamily)
    IN  RatMul(c.lineHeight, <<c.size[2], c.size[1]>>)

FitMaxWidth == RatSub(Rat(call.w), RatMul(call.fit.padding, Rat(2)))
FitRoom == RatSub(Rat(call.h), RatMul(call.fit.padding, Rat(2)))

\* C31: one font size governs a page: the size the returned lines were
\* wrapped and measured at is the size the line positions are computed with
\* and the size the words are drawn at.
C31_OneFontSize ==
    call.fn = "layoutFit" =>
        /\ call.fit.wrapSize = call.fit.finalFontSize
        /\ call.drawFontSize = call.fit.finalFontSize

\* Width of the words at the indices of line, joined by spaces, at size.
LineWidth(line, size) == measureText(JoinedChars(call.words, line), size)

\* C32: the lines hold every word exactly once, in source order, and none
\* is empty; a word opens a new line exactly when appending it to a
\* non-empty line would be wider than canvasW - 2 * padding, so a line of
\* several words is at most that wide.
C32_GreedyWrapping ==
    call.fn = "layoutFit" =>
        LET lines == call.fit.lineWords
            size == call.fit.wrapSize
        IN  /\ Flatten(lines) = [i \in 1..Len(call.words) |-> i]
            /\ \A l \in DOMAIN lines : Len(lines[l]) > 0
            /\ \A l \in DOMAIN lines :
                 Len(lines[l]) > 1 => RatLe(LineWidth(lines[l], size), FitMaxWidth)
            /\ \A l \in DOMAIN lines :
                 l > 1 => RatLt(FitMaxWidth,
                                LineWidth(Append(lines[l - 1], lines[l][1]), size))

\* A layout of several lines with a line of two words and a line that is a
\* single word wider than the limit.
C32_Witness ==
    /\ call.fn = "layoutFit"
    /\ \E l \in DOMAIN call.fit.lineWords : Len(call.fit.lineWords[l]) > 1
    /\ \E l \in DOMAIN call.fit.lineWords :
         /\ Len(call.fit.lineWords[l]) = 1
         /\ RatLt(FitMaxWidth, LineWidth(call.fit.lineWords[l], call.fit.wrapSize))

\* The layout wrapped at size is taller than the room the canvas leaves.
Overflows(size) ==
    RatLt(FitRoom,
          RatMul(Rat(Len(GreedyWrap(call.words, 1, <<>>, <<>>, size, FitMaxWidth))),
                 RatMul(size, FitRatio)))

\* C33: the fit loop makes at most 20 passes, each 2 below the one before; it
\* goes on only while the layout overflows and the reduced size is above
\* 10, and stops at the first pass that fits, brings the size to the floor
\* or is the 20th; the size returned is never below 10.
C33_FitLoopStops ==
    call.fn = "layoutFit" =>
        LET f == call.fit
            last == f.passes[f.loops]
        IN  /\ f.loops = Len(f.passes)
            /\ f.loops <= MaxLoops
            /\ f.passes[1] = FontConfig(call.fontSize, call.fontFamily).size
            /\ \A k \in 1..(f.loops - 1) :
                 /\ f.passes[k + 1] = RatSub(f.passes[k], Rat(FontStep))
                 /\ Overflows(f.passes[k])
                 /\ RatLt(Rat(MinFontSize), f.passes[k + 1])
            /\ \/ ~Overflows(last)
               \/ RatLe(RatSub(last, Rat(FontStep)), Rat(MinFontSize))
               \/ f.loops = MaxLoops
            /\ f.finalFontSize = IF Overflows(last)
                                 THEN RatSub(last, Rat(FontStep)) ELSE last
            /\ RatLe(Rat(MinFontSize), f.finalFontSize)

\* A page that still overflows when the loop has brought the size to 10.
C33_Witness ==
    /\ call.fn = "layoutFit"
    /\ call.fit.loops > 1
    /\ call.fit.loops < MaxLoops
    /\ Overflows(call.fit.wrapSize)
    /\ call.fit.finalFontSize = Rat(MinFontSize)

\* C34: every line starts at (canvasW - lineWidth) / 2, lineWidth being
\* the width of the line in the font of the layout, and the space above
\* the first line equals the space below the last line, a line being as
\* high as the step between the lines.
C34_Centered ==
    call.fn = "layoutFit" =>
        LET pos == call.positions
            n == Len(pos)
            lineHeight == RatMul(call.fit.finalFontSize, FitRatio)
        IN  /\ \A l \in DOMAIN pos :
                 /\ pos[l].x[1] =
                      RatMul(RatSub(Rat(call.w),
                                    LineWidth(call.fit.lineWords[l],
                                              call.fit.finalFontSize)),
                             <<1, 2>>)
                 /\ l > 1 => pos[l].y = RatAdd(pos[l - 1].y, lineHeight)
            /\ pos[1].y = RatSub(Rat(call.h), RatAdd(pos[n].y, lineHeight))

\* ------------------------------------------------------ emphasis markers
\* What the parser returns for the text t of a word once the markers are
\* dealt with: its spans and its clean text.
ParsedText(t) ==
    LET r == ParseLoop(t, 0, <<>>, <<>>)
    IN  [cleanText |-> IF r.spans = <<>> THEN t ELSE r.cleanText,
         spans |-> IF r.spans = <<>> THEN << [text |-> t, style |-> NoStyle] >>
                   ELSE r.spans]

\* The word has a leading and a trailing emphasis marker.
BothMarkers(w) == Len(w) >= 2 /\ startsWith(w, "*") /\ endsWith(w, "*")

\* C35: a word with a leading and a trailing marker is parsed without them
\* and is a highlight; any other word (the lone marker aside) is parsed
\* with its text unchanged and is no highlight.
C35_MarkersStripped ==
    (call.fn = "parseStyledWord" /\ call.rawWord # <<"*">>) =>
        LET w == call.rawWord
            text == IF BothMarkers(w) THEN SubSeq(w, 2, Len(w) - 1) ELSE w
        IN  /\ call.out.isHighlight = BothMarkers(w)
            /\ call.out.cleanText = ParsedText(text).cleanText
            /\ call.out.spans = ParsedText(text).spans

\* The word holds a pair of emphasis markers around some text.
Emphasized(w) ==
    \E i, j \in DOMAIN w : w[i] = "*" /\ w[j] = "*" /\ j > i + 1

\* C36: every word of a generated script that carries its text between two
\* emphasis markers, the word of the fallback step included, is parsed by
\* the player as a highlight with no marker left in cleanText.
C36_GeneratedHighlights ==
    call.fn = "generateAutopsyScript" =>
        \A i \in DOMAIN call.rawWords :
            Emphasized(call.rawWords[i]) =>
                /\ call.words[i].isHighlight
                /\ CountOf(call.words[i].cleanText, "*") = 0

\* C37: a literal-mode submission the form accepted passed an audio blob
\* together with the text and the segments transcribed from that very
\* blob, and no submission was accepted while recording or transcribing.
C37_SubmissionBelongsTogether ==
    /\ ~lastStart.busy
    /\ lastStart.mode = "literal" =>
           /\ lastStart.audioBlob
           /\ lastStart.textFrom = "current"
           /\ lastStart.segmentsFrom = "current"

\* An export player is mounted and its session has not ended.
ExportMounted == exportPc \in {"setup", "recording", "stopping"}

\* The outcome of a generation: the video, or the form with an error.
GenerationEnded ==
    \/ appState = "COMPLETE" /\ videoUrl
    \/ appState = "IDLE" /\ error # "none"

\* C38: while the application is in GENERATING an export session is
\* mounted, every visit of GENERATING ends in COMPLETE with a video or in
\* IDLE with an error, and COMPLETE is entered from GENERATING only.
C38_NeverStuck ==
    /\ [](appState = "GENERATING" => ExportMounted)
    /\ (appState = "GENERATING") ~> GenerationEnded
    /\ [][appState' = "COMPLETE" => appState \in {"GENERATING", "COMPLETE"}]_vars

\* ------------------------------------------------------ drawing of a word
\* C39: a span of an active word is drawn in the theme's highlight color;
\* else in its own color if it has one; else in the accent color if the
\* word is emphasized; else in the base color.
C39_ColorResolution ==
    call.fn = "animateWord" =>
        LET theme == THEME_CONFIG(call.visualStyle)
        IN  \A k \in DOMAIN call.word.spans :
                LET span == call.word.spans[k]
                    explicit == span.style.color # "undefined"
                                /\ span.style.color # <<>>
                IN  /\ call.isActive => call.spanColors[k] = theme.highlightColor
                    /\ (~call.isActive /\ explicit) =>
                           call.spanColors[k] = span.style.color
                    /\ (~call.isActive /\ ~explicit /\ call.word.isHighlight) =>
                           call.spanColors[k] = theme.accentColor
                    /\ (~call.isActive /\ ~explicit /\ ~call.word.isHighlight) =>
                           call.spanColors[k] = theme.baseColor

\* An active, emphasized word with a colored span and plain spans.
C39_Witness ==
    /\ call.fn = "animateWord"
    /\ call.isActive
    /\ call.word.isHighlight
    /\ Len(call.word.spans) = 3
    /\ call.word.spans[2].style.color = <<"b">>
    /\ \A k \in 1..3 : call.spanColors[k] = THEME_CONFIG(call.visualStyle).highlightColor

\* Points of the active window the bounce is compared at.
WindowGrid == { <<k, 20>> : k \in 0..19 }

\* C40: the bounce scale of an active word is 1 at the start of its window,
\* does not fall before 20% of the window, where it is 1.15, does not rise
\* after it and comes back to 1 at the end; it stays within [1, 1.15]; a
\* word that is not active has the bounce scale 1.
C40_BounceScale ==
    call.fn = "animateWord" =>
        LET p == call.activeProgress
            s == call.activeScale
        IN  IF call.isActive
            THEN /\ RatLe(Rat(1), s) /\ RatLe(s, <<23, 20>>)
                 /\ p = Rat(0) => s = Rat(1)
                 /\ p = <<1, 5>> => s = <<23, 20>>
                 /\ \A q \in { Norm(g[1], g[2]) : g \in WindowGrid } :
                      /\ (RatLe(q, p) /\ RatLe(p, <<1, 5>>)) => RatLe(bounce(q), s)
                      /\ (RatLe(<<1, 5>>, q) /\ RatLe(q, p)) => RatLe(s, bounce(q))
                 /\ bounce(Rat(1)) = Rat(1)
            ELSE s = Rat(1)

\* A word a fifth into its active window, at the top of the bounce.
C40_Witness ==
    /\ call.fn = "animateWord"
    /\ call.isActive
    /\ call.activeProgress = <<1, 5>>
    /\ call.activeScale = <<23, 20>>
====
